---------------------------- MODULE Spec2Model ----------------------------
(***************************************************************************)
(* sozograph: the resolver's deterministic merge of an extractor update    *)
(* into a Passport (src/src/sozograph/resolver.py) over the data model of  *)
(* src/src/sozograph/schema.py.                                            *)
(*                                                                         *)
(* Strings are sequences of one-character strings, so that strip(),        *)
(* lower(), split() and the key regex are computed character by character. *)
(* Timestamps are integers (seconds); confidences are tenths (7 = 0.7).    *)
(***************************************************************************)
EXTENDS Integers, Sequences, FiniteSets, TLC

VARIABLES
    passport,   \* the Passport the caller holds (schema.Passport)
    upd,        \* the objects of the last update, as the caller sees them now
    pre,        \* the Passport as it was when the last call started
    results,    \* what each step of the last call returned
    stats,      \* the ResolveStats the last call returned
    history,    \* every Fact/Preference update ever handed to the upsert
    transitions,\* every change of value the upserts have met, each held once
    swapped,    \* for two updates merged one after the other: the Passport they
                \* were merged into, the two updates, and the Passport that
                \* merging them in the other order gives
    sources,    \* Passport.sources, with the list and the argument of the
                \* last upsert_source call
    coerced,    \* the last coerce_to_interactions call: its arguments and
                \* what it returned or that it raised
    extracted,  \* the last Extractor._validate_and_normalize call
    ing,        \* one SozoGraph.ingest call: its position and its locals
    ingested,   \* the last call of the module-level ingest(): its arguments and
                \* what it returned or that it raised
    env,        \* the interpreter: the seed of its str hashes and its clock
    hashed,     \* two values handed to sha256_json and what it returned
    render,     \* one export_context call: its inputs, the position of its
                \* trimming loop and the length of the string it returned
    calls,      \* number of merge_passport_update calls made (the clock of touch())
    op          \* the last operation: "init", "merge" or "remerge"

vars == <<passport, upd, pre, results, stats, history, transitions, swapped,
          sources, coerced, extracted, ing, ingested, env, hashed, render, calls,
          op>>

\* the variables of the resolver
resolverVars == <<passport, upd, pre, results, stats, history, transitions,
                  swapped, calls, op>>

-----------------------------------------------------------------------------
(* Bounds of the model *)

\* merge_passport_update calls with a fresh update in one behaviour
MaxCalls == 2

\* timestamps are 1..MaxTs
MaxTs == 2

-----------------------------------------------------------------------------
(* Characters and strings *)

Digits == << "0", "1", "2", "3", "4", "5", "6", "7", "8", "9" >>

Uppers ==
    << "A", "B", "C", "D", "E", "F", "G", "H", "I", "J", "K", "L", "M",
       "N", "O", "P", "Q", "R", "S", "T", "U", "V", "W", "X", "Y", "Z" >>

Lowers ==
    << "a", "b", "c", "d", "e", "f", "g", "h", "i", "j", "k", "l", "m",
       "n", "o", "p", "q", "r", "s", "t", "u", "v", "w", "x", "y", "z" >>

IndexOf(table, c) == CHOOSE i \in 1..Len(table) : table[i] = c

InTable(table, c) == \E i \in 1..Len(table) : table[i] = c

\* code point of a character of the model's alphabet
Ord(c) ==
    CASE c = "\t" -> 9
      [] c = " " -> 32
      [] c = "-" -> 45
      [] c = "/" -> 47
      [] InTable(Digits, c) -> 47 + IndexOf(Digits, c)
      [] c = ":" -> 58
      [] InTable(Uppers, c) -> 64 + IndexOf(Uppers, c)
      [] c = "_" -> 95
      [] InTable(Lowers, c) -> 96 + IndexOf(Lowers, c)

IsUpper(c) == InTable(Uppers, c)

\* the class [a-z0-9] of utils._KEY_RE
IsLowerAlnum(c) == InTable(Lowers, c) \/ InTable(Digits, c)

\* str.isspace() on the characters of the model
\* the whitespace of the strings modelled
Whitespace == {" ", "\t"}

IsSpace(c) == c \in Whitespace

LowerChar(c) ==
    IF IsUpper(c) THEN Lowers[IndexOf(Uppers, c)] ELSE c

\* a function on 1..n as the tuple of its values
Tuple(f) == f \o << >>

\* F(v), with v evaluated once
Bind(v, F(_)) == CHOOSE y \in {F(x) : x \in {v}} : TRUE

\* str.lower()
Lower(s) == Tuple([i \in 1..Len(s) |-> LowerChar(s[i])])

SetMin(S) == CHOOSE x \in S : \A y \in S : x <= y
SetMax(S) == CHOOSE x \in S : \A y \in S : x >= y

\* the subsequence of s at the positions I, in order
Pick(s, I) ==
    LET J == I \cap (1..Len(s))
        at(p) == CHOOSE i \in J : Cardinality({j \in J : j < i}) = p - 1
    IN  Tuple([p \in 1..Cardinality(J) |-> s[at(p)]])

\* str.strip(chars): s without its leading and trailing characters of chars
StripChars(s, chars) ==
    LET keep == {i \in 1..Len(s) : s[i] \notin chars}
    IN  IF keep = {} THEN << >> ELSE SubSeq(s, SetMin(keep), SetMax(keep))

\* str.strip()
Strip(s) == StripChars(s, Whitespace)

\* the order < of Python on str: lexicographic by code point
StrLt(a, b) ==
    \E i \in 1..(Len(b)) :
        /\ \A j \in 1..(i - 1) : j <= Len(a) /\ a[j] = b[j]
        /\ \/ i = Len(a) + 1
           \/ i <= Len(a) /\ Ord(a[i]) < Ord(b[i])

-----------------------------------------------------------------------------
(* utils.py, resolver.py: normalisation of keys *)

\* utils.normalize_key: strip, lower, every run of [^a-z0-9] becomes one "_",
\* then the surrounding "_" are stripped
normalize_key(value) ==
    LET v    == Lower(Strip(value))
        sub  == Tuple([i \in 1..Len(v) |-> IF IsLowerAlnum(v[i]) THEN v[i] ELSE "_"])
        keep == {i \in 1..Len(v) :
                    IsLowerAlnum(v[i]) \/ i = 1 \/ IsLowerAlnum(v[i - 1])}
    IN  StripChars(Pick(sub, keep), {"_"})

\* resolver._norm_key: (key or "").strip().lower()
NormKey(key) == Lower(Strip(key))

\* resolver._entity_key: (name or "").strip().lower()
EntityKey(name) == Lower(Strip(name))

\* " ".join(item.strip().lower().split()) of resolver._dedupe_open_loops:
\* every run of whitespace becomes one space, none at the ends
LoopNorm(item) ==
    LET v    == Lower(Strip(item))
        sub  == Tuple([i \in 1..Len(v) |-> IF IsSpace(v[i]) THEN " " ELSE v[i]])
        keep == {i \in 1..Len(v) : ~IsSpace(v[i]) \/ ~IsSpace(v[i - 1])}
    IN  Pick(sub, keep)

-----------------------------------------------------------------------------
(* schema.py: JSON values, Facts/Preferences, Contradictions *)

\* a JSON string value
StrV(s) == [t |-> "str", s |-> s, n |-> 0]

\* a JSON integer value
IntV(n) == [t |-> "int", s |-> << >>, n |-> n]

\* the fields of a Fact or Preference; a stored entry also carries oid, the
\* identity of the Python object: the index in the caller's list of the update
\* object it is (list.append and items[idx] = incoming store the object itself),
\* 0 when it is none of the current update's objects
KVObj(e) ==
    [key |-> e.key, value |-> e.value, ts |-> e.ts,
     confidence |-> e.confidence, source |-> e.source]

Stored(o, i) ==
    [key |-> o.key, value |-> o.value, ts |-> o.ts,
     confidence |-> o.confidence, source |-> o.source, oid |-> i]

\* schema.Contradiction
Contradiction(key, old, new, ts_old, ts_new, source_old, source_new) ==
    [key |-> key, old |-> old, new |-> new, ts_old |-> ts_old, ts_new |-> ts_new,
     source_old |-> source_old, source_new |-> source_new]

-----------------------------------------------------------------------------
(* resolver.py: temporal upsert of one Fact/Preference *)

\* resolver._value_equal
ValueEqual(a, b) ==
    IF a.t = "str" /\ b.t = "str" THEN Strip(a.s) = Strip(b.s) ELSE a = b

\* the index of the first item whose key matches, 0 when there is none
FindKey(items, key) ==
    LET hits == {i \in 1..Len(items) : NormKey(items[i].key) = key}
    IN  IF hits = {} THEN 0 ELSE SetMin(hits)

\* the equal-value branch that always takes the incoming ts and source: a
\* faulty variant
MergeEqualTakeIncoming(current, incoming) ==
    [current EXCEPT !.ts = incoming.ts, !.source = incoming.source]

\* resolver._upsert_kv_with_temporal_priority, lines 104-112: the stored
\* object after an equal-value update
MergeEqual(current, incoming) ==
    LET c1 == IF incoming.ts > current.ts
              THEN [current EXCEPT !.ts = incoming.ts, !.source = incoming.source]
              ELSE current
    IN  IF incoming.confidence > c1.confidence
        THEN [c1 EXCEPT !.confidence = incoming.confidence]
        ELSE c1

\* the temporal test with > for >=: a faulty variant
IncomingWinsStrict(incoming, current) == incoming.ts > current.ts

\* no temporal test, the last writer wins: a faulty variant
IncomingWinsAlways(incoming, current) == TRUE

\* resolver.py line 116: a differing value replaces the stored one
IncomingWins(incoming, current) == incoming.ts >= current.ts

\* the contradiction of an older update with the roles not swapped: a faulty
\* variant
OlderContradictionUnswapped(key, current, incoming) ==
    Contradiction(key, current.value, incoming.value, current.ts, incoming.ts,
                  current.source, incoming.source)

\* resolver.py lines 132-140
OlderContradiction(key, current, incoming) ==
    Contradiction(key, incoming.value, current.value, incoming.ts, current.ts,
                  incoming.source, current.source)

\* a ledger that keeps its last record only: a faulty variant
KeepLastContradiction(contradictions, c) == << c >>

\* contradictions.append(c), lines 127 and 141
AppendContradiction(contradictions, c) == Append(contradictions, c)

\* resolver._upsert_kv_with_temporal_priority. incoming is a stored-form
\* record (its oid names the update object). The result holds the new list,
\* the new contradictions, the returned flag and the returned contradiction
\* (a sequence of length 0 for None)
UpsertKV(items, incoming0, contradictions) ==
    LET key      == NormKey(incoming0.key)
        incoming == [incoming0 EXCEPT !.key = key]
        idx      == FindKey(items, key)
    IN  IF idx = 0
        THEN [items |-> Append(items, incoming), contradictions |-> contradictions,
              updated |-> TRUE, c |-> << >>]
        ELSE
          LET current == [items[idx] EXCEPT !.key = key]
          IN  IF ValueEqual(current.value, incoming.value)
              THEN [items |-> [items EXCEPT ![idx] = MergeEqual(current, incoming)],
                    contradictions |-> contradictions,
                    updated |-> FALSE, c |-> << >>]
              ELSE IF IncomingWins(incoming, current)
              THEN LET c == Contradiction(key, current.value, incoming.value,
                                          current.ts, incoming.ts,
                                          current.source, incoming.source)
                   IN  [items |-> [items EXCEPT ![idx] = incoming],
                        contradictions |-> AppendContradiction(contradictions, c),
                        updated |-> TRUE, c |-> << c >>]
              ELSE LET c == OlderContradiction(key, current, incoming)
                   IN  [items |-> [items EXCEPT ![idx] = current],
                        contradictions |-> AppendContradiction(contradictions, c),
                        updated |-> FALSE, c |-> << c >>]

\* the update objects after one upsert: object j is the stored entry with oid j
\* when there is one (the same Python object), and object i had its key
\* normalised (incoming.key = key, line 87)
Mirror(objs, items, i) ==
    Tuple([j \in 1..Len(objs) |->
        IF \E k \in 1..Len(items) : items[k].oid = j
        THEN KVObj(items[CHOOSE k \in 1..Len(items) : items[k].oid = j])
        ELSE IF j = i THEN [objs[j] EXCEPT !.key = NormKey(objs[j].key)]
        ELSE objs[j]])

\* the entries of a list stored under a normalised key, without their oid
Matching(items, key) ==
    LET hits == SelectSeq(items, LAMBDA e : NormKey(e.key) = key)
    IN  Tuple([i \in 1..Len(hits) |-> KVObj(hits[i])])

\* the loops of merge_passport_update over facts (lines 182-192) and over prefs
\* (lines 195-205), from object i on. st holds the list, the contradictions,
\* the update objects and, per object, a record of the step: the object the
\* upsert was handed, the flag and the contradiction it returned, the entries
\* stored under the key before and after it, and the length of the ledger
\* before and after it
KVStep(st, i) ==
    Bind(UpsertKV(st.items, Stored(st.objs[i], i), st.contradictions), LAMBDA r :
        [items          |-> r.items,
         contradictions |-> r.contradictions,
         objs           |-> Mirror(st.objs, r.items, i),
         results        |-> Append(st.results,
            [incoming  |-> st.objs[i],
             updated   |-> r.updated,
             c         |-> r.c,
             before    |-> Matching(st.items, NormKey(st.objs[i].key)),
             after     |-> Matching(r.items, NormKey(st.objs[i].key)),
             nc_before |-> Len(st.contradictions),
             nc_after  |-> Len(r.contradictions)])])

RECURSIVE FoldKV(_, _)
FoldKV(st, i) ==
    IF i > Len(st.objs) THEN st
    ELSE Bind(KVStep(st, i), LAMBDA next : FoldKV(next, i + 1))

-----------------------------------------------------------------------------
(* schema.py, resolver.py: entities *)

\* the literals of schema.EntityType, in the order of Python's < on str
EntityTypes ==
    << "concept", "organization", "other", "person", "place", "product",
       "project", "skill", "tool" >>

TypeLt(a, b) == IndexOf(EntityTypes, a) < IndexOf(EntityTypes, b)

\* schema.Entity._clean_aliases: strip, drop the empty ones, drop the
\* case-insensitive repeats, keep the order
CleanAliases(v) ==
    LET w    == Tuple([i \in 1..Len(v) |-> Strip(v[i])])
        keep == {i \in 1..Len(v) :
                    /\ w[i] # << >>
                    /\ ~\E j \in 1..(i - 1) : Lower(w[j]) = Lower(w[i])}
    IN  Pick(w, keep)

\* schema.Entity(name=..., type=..., aliases=...): the validator runs on aliases
Entity(name, type, aliases) ==
    [name |-> name, type |-> type, aliases |-> CleanAliases(aliases)]

\* add_alias of resolver._merge_entity (lines 49-57), applied to xs in order
RECURSIVE AddAliases(_, _)
AddAliases(aliases, xs) ==
    IF xs = << >> THEN aliases
    ELSE
      LET x == Strip(Head(xs))
          k == Lower(x)
          seen == \E i \in 1..Len(aliases) : Lower(aliases[i]) = k
      IN  AddAliases(IF x = << >> \/ seen THEN aliases ELSE Append(aliases, x),
                     Tail(xs))

\* resolver._merge_entity lines 67-69
MergedType(existing, incoming) ==
    IF existing.type = "other" /\ incoming.type # "other"
    THEN incoming.type
    ELSE existing.type

\* the merge that appends the incoming aliases without the seen test: a faulty
\* variant
MergeEntityNoDedupe(existing, incoming) ==
    [name |-> existing.name, type |-> MergedType(existing, incoming),
     aliases |-> existing.aliases \o incoming.aliases]

\* resolver._merge_entity
MergeEntity(existing, incoming) ==
    LET named == IF EntityKey(existing.name) # EntityKey(incoming.name)
                 THEN << incoming.name >> ELSE << >>
        aliases == AddAliases(existing.aliases, named \o incoming.aliases)
    IN  Entity(existing.name, MergedType(existing, incoming), aliases)

\* the set of the elements of a sequence
Range(s) == {s[i] : i \in 1..Len(s)}

\* entity_map of merge_passport_update (line 208): a later entity with the
\* same key replaces an earlier one
EntityMap(entities) ==
    [k \in {EntityKey(e.name) : e \in Range(entities)} |->
        entities[SetMax({i \in 1..Len(entities) : EntityKey(entities[i].name) = k})]]

AliasKeys(e) == {EntityKey(a) : a \in Range(e.aliases)}

\* alias_index of merge_passport_update (lines 210-214)
AliasIndex(entities) ==
    [ak \in UNION {AliasKeys(e) : e \in Range(entities)} |->
        EntityKey(entities[SetMax({i \in 1..Len(entities) :
                                      ak \in AliasKeys(entities[i])})].name)]

\* lines 217-233: the key of the entity an incoming entity is merged into, as a
\* sequence of length 0 (None) or 1
TargetKey(entity_map, alias_index, inc) ==
    LET inc_name_k == EntityKey(inc.name)
        hit(a) == EntityKey(a) \in DOMAIN entity_map \/ EntityKey(a) \in DOMAIN alias_index
        hits == {i \in 1..Len(inc.aliases) : hit(inc.aliases[i])}
    IN  IF inc_name_k \in DOMAIN entity_map THEN << inc_name_k >>
        ELSE IF inc_name_k \in DOMAIN alias_index THEN << alias_index[inc_name_k] >>
        ELSE IF hits = {} THEN << >>
        ELSE LET ak == EntityKey(inc.aliases[SetMin(hits)])
             IN  IF ak \in DOMAIN entity_map THEN << ak >> ELSE << alias_index[ak] >>

\* d with every key of ks set to v
SetAll(d, ks, v) == [k \in DOMAIN d \cup ks |-> IF k \in ks THEN v ELSE d[k]]

\* the body of the loop over the incoming entities (lines 216-253). The record
\* of the step holds the incoming entity, the entity it matched (a sequence of
\* length 0 when it matched none), the entity stored for it and the list
\* before and after
EntityStep(st, inc) ==
    LET inc_name_k == EntityKey(inc.name)
    IN  Bind(TargetKey(st.entity_map, st.alias_index, inc), LAMBDA target :
        IF target = << >>
        THEN [entities    |-> Append(st.entities, inc),
              entity_map  |-> SetAll(st.entity_map, {inc_name_k}, inc),
              alias_index |-> SetAll(st.alias_index, AliasKeys(inc), inc_name_k),
              entities_merged |-> st.entities_merged + 1,
              results     |-> Append(st.results,
                                [incoming |-> inc, existing |-> << >>, merged |-> inc,
                                 before   |-> st.entities,
                                 after    |-> Append(st.entities, inc)])]
        ELSE
          LET target_k == target[1]
              at       == {i \in 1..Len(st.entities) :
                              EntityKey(st.entities[i].name) = target_k}
          IN  Bind(MergeEntity(st.entity_map[target_k], inc), LAMBDA merged :
              [entities    |-> IF at = {} THEN st.entities
                               ELSE [st.entities EXCEPT ![SetMin(at)] = merged],
               entity_map  |-> SetAll(st.entity_map, {target_k}, merged),
               alias_index |-> SetAll(st.alias_index, AliasKeys(merged), target_k),
               entities_merged |-> st.entities_merged + 1,
               results     |-> Append(st.results,
                                [incoming |-> inc,
                                 existing |-> << st.entity_map[target_k] >>,
                                 merged   |-> merged,
                                 before   |-> st.entities,
                                 after    |-> IF at = {} THEN st.entities
                                              ELSE [st.entities EXCEPT
                                                      ![SetMin(at)] = merged]])]))

RECURSIVE FoldEntities(_, _)
FoldEntities(st, incs) ==
    IF incs = << >> THEN st
    ELSE Bind(EntityStep(st, Head(incs)), LAMBDA next : FoldEntities(next, Tail(incs)))

-----------------------------------------------------------------------------
(* resolver.py: open loops *)

\* the rule that lets an equally old incoming loop replace the stored one: a
\* faulty variant
LoopReplacesOnTie(incoming, loop) == incoming.ts >= loop.ts

\* resolver.py line 159
LoopReplaces(incoming, loop) == incoming.ts > loop.ts

\* resolver.py lines 151, 156-157: the same normalised text
SameLoop(a, b) == LoopNorm(a) = LoopNorm(b)

\* resolver._dedupe_open_loops: the new list and the returned flag
DedupeOpenLoops(existing, incoming) ==
    LET hits == {i \in 1..Len(existing) : SameLoop(existing[i].item, incoming.item)}
    IN  IF LoopNorm(incoming.item) = << >>
        THEN [loops |-> existing, added |-> FALSE]
        ELSE IF hits = {}
        THEN [loops |-> Append(existing, incoming), added |-> TRUE]
        ELSE IF LoopReplaces(incoming, existing[SetMin(hits)])
        THEN [loops |-> [existing EXCEPT ![SetMin(hits)] = incoming], added |-> TRUE]
        ELSE [loops |-> existing, added |-> FALSE]

\* the loops of a list with the normalised text of item
SameLoops(loops, item) == SelectSeq(loops, LAMBDA l : SameLoop(l.item, item))

\* the loop over the incoming open loops (lines 256-258), with a record of each
\* step: the incoming loop, the returned flag and the stored loops with its
\* normalised text before and after
LoopStep(st, inc) ==
    Bind(DedupeOpenLoops(st.loops, inc), LAMBDA r :
        [loops |-> r.loops,
         results |-> Append(st.results,
            [incoming |-> inc,
             added    |-> r.added,
             before   |-> SameLoops(st.loops, inc.item),
             after    |-> SameLoops(r.loops, inc.item)])])

RECURSIVE FoldLoops(_, _)
FoldLoops(st, incs) ==
    IF incs = << >> THEN st
    ELSE Bind(LoopStep(st, Head(incs)), LAMBDA next : FoldLoops(next, Tail(incs)))

-----------------------------------------------------------------------------
(* resolver.py: the canonical ordering (lines 260-265) *)

\* the order < of Python on a tuple (str, float)
StrNumLt(a, b) == StrLt(a[1], b[1]) \/ (a[1] = b[1] /\ a[2] < b[2])

\* the order < of Python on a tuple (float, str)
NumStrLt(a, b) == a[1] < b[1] \/ (a[1] = b[1] /\ StrLt(a[2], b[2]))

\* the order < of Python on a tuple (str, EntityType)
StrTypeLt(a, b) == StrLt(a[1], b[1]) \/ (a[1] = b[1] /\ TypeLt(a[2], b[2]))

\* the order < of Python on the sort keys of the given shape
KeyLt(shape, a, b) ==
    CASE shape = "str_num"  -> StrNumLt(a, b)
      [] shape = "num_str"  -> NumStrLt(a, b)
      [] shape = "str_type" -> StrTypeLt(a, b)

\* list.sort(key=...) of the list s whose sort keys are k: stable
StableSort(s, k, shape) ==
    LET n == Len(s)
    IN  IF n <= 1 THEN s ELSE
        Bind(Tuple([i \in 1..n |->
                     1 + Cardinality({j \in 1..n :
                           \/ KeyLt(shape, k[j], k[i])
                           \/ j < i /\ ~KeyLt(shape, k[i], k[j])})]),
             LAMBDA pos :
                Tuple([p \in 1..n |-> s[CHOOSE i \in 1..n : pos[i] = p]]))

\* line 261, 262: (_norm_key(x.key), -x.ts.timestamp())
KVSortKey(x) == << NormKey(x.key), 0 - x.ts >>

\* line 263: (_entity_key(x.name), x.type)
EntitySortKey(x) == << EntityKey(x.name), x.type >>

\* the key of the open loops with the ts not negated: a faulty variant
LoopSortKeyAscending(x) == << x.ts, Lower(x.item) >>

\* line 264: (-x.ts.timestamp(), (x.item or "").lower())
LoopSortKey(x) == << 0 - x.ts, Lower(x.item) >>

\* line 265: (_norm_key(x.key), -x.ts_new.timestamp())
ContradictionSortKey(x) == << NormKey(x.key), 0 - x.ts_new >>

\* the sort keys of a list, in its order
KVSortKeys(s) == Tuple([i \in 1..Len(s) |-> KVSortKey(s[i])])
EntitySortKeys(s) == Tuple([i \in 1..Len(s) |-> EntitySortKey(s[i])])
LoopSortKeys(s) == Tuple([i \in 1..Len(s) |-> LoopSortKey(s[i])])
ContradictionSortKeys(s) == Tuple([i \in 1..Len(s) |-> ContradictionSortKey(s[i])])

-----------------------------------------------------------------------------
(* resolver.merge_passport_update *)

EmptyPassport ==
    [updated_at |-> 0, facts |-> << >>, prefs |-> << >>, entities |-> << >>,
     open_loops |-> << >>, contradictions |-> << >>]

NoUpdate == [facts |-> << >>, prefs |-> << >>, entities |-> << >>, open_loops |-> << >>]

NoResults == [facts |-> << >>, prefs |-> << >>, entities |-> << >>, open_loops |-> << >>]

NoStats ==
    [facts_upserted |-> 0, prefs_upserted |-> 0, entities_merged |-> 0,
     open_loops_added |-> 0, contradictions_added |-> 0]

\* every step counted, whatever it reported
CountAll(rs) == Len(rs)

\* lines 189-190, 202-203: the steps that reported an update
CountUpdated(rs) == Cardinality({i \in 1..Len(rs) : rs[i].updated})

\* lines 191-192, 204-205: the steps that returned a Contradiction
CountContradictions(rs) == Cardinality({i \in 1..Len(rs) : rs[i].c # << >>})

\* lines 257-258: the steps that added or replaced an open loop
CountAdded(rs) == Cardinality({i \in 1..Len(rs) : rs[i].added})

\* merge_passport_update(base, facts, prefs, entities, open_loops) at clock
\* value now: the Passport returned, the ResolveStats returned, the update
\* objects as the call leaves them, and what each step returned
MergePassportUpdate(base, U, now) ==
    Bind(FoldKV([items |-> base.facts, contradictions |-> base.contradictions,
                 objs |-> U.facts, results |-> << >>], 1), LAMBDA f :
    Bind(FoldKV([items |-> base.prefs, contradictions |-> f.contradictions,
                 objs |-> U.prefs, results |-> << >>], 1), LAMBDA p :
    Bind(FoldEntities([entities |-> base.entities,
                       entity_map |-> EntityMap(base.entities),
                       alias_index |-> AliasIndex(base.entities),
                       entities_merged |-> 0, results |-> << >>],
                      U.entities), LAMBDA e :
    Bind(FoldLoops([loops |-> base.open_loops, results |-> << >>], U.open_loops),
         LAMBDA o :
        [passport |->
            [updated_at     |-> now,
             facts          |-> StableSort(f.items, KVSortKeys(f.items), "str_num"),
             prefs          |-> StableSort(p.items, KVSortKeys(p.items), "str_num"),
             entities       |-> StableSort(e.entities, EntitySortKeys(e.entities),
                                           "str_type"),
             open_loops     |-> StableSort(o.loops, LoopSortKeys(o.loops), "num_str"),
             contradictions |-> StableSort(p.contradictions,
                                           ContradictionSortKeys(p.contradictions),
                                           "str_num")],
         stats |->
            [facts_upserted       |-> CountUpdated(f.results),
             prefs_upserted       |-> CountUpdated(p.results),
             entities_merged      |-> e.entities_merged,
             open_loops_added     |-> CountAdded(o.results),
             contradictions_added |-> CountContradictions(f.results)
                                        + CountContradictions(p.results)],
         upd |->
            [facts |-> f.objs, prefs |-> p.objs,
             entities |-> U.entities, open_loops |-> U.open_loops],
         results |->
            [facts |-> f.results, prefs |-> p.results,
             entities |-> e.results, open_loops |-> o.results]]))))

\* the stored entries are none of the objects of a new update
Forget(items) == Tuple([i \in 1..Len(items) |-> [items[i] EXCEPT !.oid = 0]])

\* what the upsert was handed, for the history
Handed(kind, rs) ==
    {[kind |-> kind, key |-> NormKey(rs[i].incoming.key),
      value |-> rs[i].incoming.value, ts |-> rs[i].incoming.ts] : i \in 1..Len(rs)}

\* the changes of value the steps met: a step that finds the key stored with
\* another value sees the value of the earlier ts give way to the value of the
\* later ts (the stored entry being the earlier one on a tie)
Observed(kind, rs) ==
    {LET cur == rs[i].before[1]
         inc == rs[i].incoming
         a   == IF inc.ts >= cur.ts THEN cur ELSE inc
         b   == IF inc.ts >= cur.ts THEN inc ELSE cur
     IN  [kind |-> kind, key |-> NormKey(inc.key),
          old |-> a.value, new |-> b.value, ts_old |-> a.ts, ts_new |-> b.ts,
          source_old |-> a.source, source_new |-> b.source] :
       i \in {j \in 1..Len(rs) :
                /\ rs[j].before # << >>
                /\ ~ValueEqual(rs[j].before[1].value, rs[j].incoming.value)}}

Call(base, U, name) ==
    \E r \in {MergePassportUpdate(base, U, calls + 1)} :
        /\ passport' = r.passport
        /\ upd' = r.upd
        /\ pre' = base
        /\ results' = r.results
        /\ stats' = r.stats
        /\ history' = history \cup Handed("fact", r.results.facts)
                              \cup Handed("pref", r.results.prefs)
        /\ transitions' = transitions \cup Observed("fact", r.results.facts)
                                      \cup Observed("pref", r.results.prefs)
        /\ calls' = calls + 1
        /\ op' = name
        /\ UNCHANGED <<swapped, render, sources, coerced, extracted, env, ingested, hashed>>

\* the interpreter the calls run in: the seed of its str hashes, and what its
\* clock shows
FirstProcess == [seed |-> 0, now |-> MaxTs + 1]

\* Passport(): sources is the empty list, upsert_source was not called
NoSources == [list |-> << >>, before |-> << >>, src |-> [id |-> "none"], n |-> 0]

\* the function was not called
NotCalled == [pc |-> "idle"]

\* export_context has not been called
NotRendering == [pc |-> "idle"]

\* no two updates were merged one after the other
NoPair == [base |-> EmptyPassport, a |-> NoUpdate, b |-> NoUpdate,
           passport |-> EmptyPassport]

\* a caller merges an update of newly built objects
Merge(U) ==
    /\ calls < MaxCalls
    /\ Call([passport EXCEPT !.facts = Forget(@), !.prefs = Forget(@)], U, "merge")
    /\ UNCHANGED ing

\* a caller merges the update of its last call once more: the same objects
Remerge ==
    /\ op = "merge"
    /\ Call(passport, upd, "remerge")
    /\ UNCHANGED ing

Init ==
    /\ passport = EmptyPassport
    /\ upd = NoUpdate
    /\ pre = EmptyPassport
    /\ results = NoResults
    /\ stats = NoStats
    /\ history = {}
    /\ transitions = {}
    /\ swapped = NoPair
    /\ render = NotRendering
    /\ sources = NoSources
    /\ coerced = NotCalled
    /\ extracted = NotCalled
    /\ ing = NotCalled
    /\ ingested = NotCalled
    /\ env = FirstProcess
    /\ hashed = NotCalled
    /\ calls = 0
    /\ op = "init"

-----------------------------------------------------------------------------
(* The updates a caller hands to merge_passport_update *)

\* schema.Fact(...) and schema.Preference(...): the validator strips the key
Fact(key, value, ts, confidence, source) ==
    [key |-> Strip(key), value |-> value, ts |-> ts,
     confidence |-> confidence, source |-> source]

Timestamps == 1..MaxTs

\* where an item comes from: its source id and the confidence given to it
Origins ==
    {[source |-> "t1", confidence |-> 9], [source |-> "t2", confidence |-> 5]}

KeyTitle == << "A", " ", "b" >>
KeyLower == << "a", " ", "b" >>
KeySnake == << "a", "_", "b" >>

ValX     == StrV(<< "x" >>)
ValXPad  == StrV(<< "x", " " >>)
ValOne   == IntV(1)

FactUniverse ==
    {Fact(KeyLower, v, t, o.confidence, o.source) :
        v \in {ValX, ValOne}, t \in Timestamps, o \in Origins}
    \cup {Fact(KeyLower, ValXPad, t, 5, "t2") : t \in Timestamps}
    \cup {Fact(KeyTitle, ValX, t, 9, "t1") : t \in Timestamps}
    \cup {Fact(KeySnake, ValX, MaxTs, 9, "t1")}

PrefUniverse ==
    {Fact(KeyLower, v, t, 9, "t1") : v \in {ValX, ValOne}, t \in Timestamps}

\* the updates that carry two facts
PairUniverse ==
    {<< Fact(KeyLower, ValX, tu[1], 5, "t2"), Fact(KeyLower, v, tu[2], 9, "t1") >> :
        tu \in {x \in Timestamps \X Timestamps : x[1] <= x[2]}, v \in {ValX, ValOne}}

KVUpdates ==
    {[NoUpdate EXCEPT !.facts = << f >>] : f \in FactUniverse}
    \cup {[NoUpdate EXCEPT !.prefs = << p >>] : p \in PrefUniverse}
    \cup {[NoUpdate EXCEPT !.facts = fg] : fg \in PairUniverse}

MergeKV == \E U \in KVUpdates : Merge(U)

NextKV == MergeKV \/ Remerge

\* merges of facts and preferences
SpecKV == Init /\ [][NextKV]_vars

\* two callers start from the same Passport and merge the same two updates,
\* each of newly built objects, one as A then B and the other as B then A
MergeBothOrders(A, B) ==
    /\ calls + 2 <= MaxCalls
    /\ \E base \in {[passport EXCEPT !.facts = Forget(@), !.prefs = Forget(@)]} :
       \E r1 \in {MergePassportUpdate(base, A, calls + 1)},
          q1 \in {MergePassportUpdate(base, B, calls + 1)} :
       \E mid \in {[r1.passport EXCEPT !.facts = Forget(@), !.prefs = Forget(@)]} :
       \E r2 \in {MergePassportUpdate(mid, B, calls + 2)},
          q2 \in {MergePassportUpdate(
                     [q1.passport EXCEPT !.facts = Forget(@), !.prefs = Forget(@)],
                     A, calls + 2)} :
          /\ passport' = r2.passport
          /\ upd' = r2.upd
          /\ pre' = mid
          /\ results' = r2.results
          /\ stats' = r2.stats
          /\ history' = history \cup Handed("fact", r1.results.facts)
                                \cup Handed("pref", r1.results.prefs)
                                \cup Handed("fact", r2.results.facts)
                                \cup Handed("pref", r2.results.prefs)
          /\ transitions' = transitions \cup Observed("fact", r1.results.facts)
                                        \cup Observed("pref", r1.results.prefs)
                                        \cup Observed("fact", r2.results.facts)
                                        \cup Observed("pref", r2.results.prefs)
          /\ swapped' = [base |-> base, a |-> A, b |-> B, passport |-> q2.passport]
          /\ calls' = calls + 2
          /\ op' = "pair"
          /\ UNCHANGED <<render, sources, coerced, extracted, ing, env, ingested, hashed>>

\* the facts merged in both orders: one key written in two ways, one value
\* written in two ways, every ts, two origins
OrderFacts ==
    {Fact(KeyLower, v, t, o.confidence, o.source) :
        v \in {ValX, ValXPad}, t \in Timestamps, o \in Origins}
    \cup {Fact(KeyTitle, v, t, 9, "t1") : v \in {ValX, ValXPad}, t \in Timestamps}

OrderUpdates == {[NoUpdate EXCEPT !.facts = << f >>] : f \in OrderFacts}

\* what the Passport may hold before: nothing, or the key with either value
BaseUpdates ==
    {[NoUpdate EXCEPT !.facts = << Fact(KeyLower, v, MaxTs, 5, "t2") >>] :
        v \in {ValX, ValOne}}

MergeBase == \E U \in BaseUpdates : Merge(U)

MergeOrders == \E A, B \in OrderUpdates : MergeBothOrders(A, B)

NextOrder == MergeBase \/ MergeOrders

\* merges of two single-fact updates in both orders
SpecOrder == Init /\ [][NextOrder]_vars

-----------------------------------------------------------------------------
(* render.py: export_context. A string is held as its length, a list of     *)
(* lines as the sequence of the lengths of its lines.                        *)

\* budget_chars is at least this (line 83)
MinBudget == 400

\* the default budget_chars (lines 71, 83)
DefaultBudget == 3000

\* the caps of _pick_top_facts, _pick_top_prefs, _entities_summary,
\* _pick_top_open_loops, _pick_top_contradictions (lines 86-89, 57, 192)
FactCap == 25
PrefCap == 15
EntityCap == 12
LoopCap == 10
ContradictionCap == 8

\* the trimming never goes below this many facts (lines 207-208)
FactFloor == 5

\* a bound of the trimming loop shorter than the rebuilds it may need: a
\* faulty variant
TrimIterationsShort == FactCap + PrefCap

\* range(80), line 193
TrimIterations == 80

\* len(header), line 72
HeaderLen == 21

Min(a, b) == IF a <= b THEN a ELSE b
Max(a, b) == IF a >= b THEN a ELSE b

\* n lines of length x
Repeat(n, x) == [i \in 1..n |-> x]

RECURSIVE SumSeq(_)
SumSeq(s) == IF s = << >> THEN 0 ELSE Head(s) + SumSeq(Tail(s))

\* join_len (lines 137-138): len("\n".join(ls))
JoinLen(ls) == IF ls = << >> THEN 0 ELSE SumSeq(ls) + Len(ls) - 1

\* a section of the output: nothing when it has no item, else an empty line,
\* the title and one line per item
Section(n, title, line) ==
    IF n = 0 THEN << >> ELSE << 0, title >> \o Repeat(n, line)

\* the lines of lines 92-134 and of rebuild (lines 143-189) for the caps
\* (f, p, e, o, c). shape gives the length of user_key (0: none) and of the
\* isoformat of updated_at, the number of the items of each list, the length
\* of a fact line and the length of every other item line
Lines(shape, caps) ==
    << HeaderLen >>
    \o (IF shape.user > 0 THEN << 6 + shape.user >> ELSE << >>)
    \o << 9 + shape.updated >>
    \o Section(Min(shape.facts, caps[1]), 24, shape.fact_line)
    \o Section(Min(shape.prefs, caps[2]), 12, shape.line)
    \o Section(Min(shape.entities, caps[3]), 13, shape.line)
    \o Section(Min(shape.open_loops, caps[4]), 11, shape.line)
    \o Section(Min(shape.contradictions, caps[5]), 49, shape.line)

\* a trim step that lowers the prefs before the entities: a faulty variant
TrimCapsPrefsFirst(caps) ==
    IF caps[5] > 0 THEN << [caps EXCEPT ![5] = Max(0, @ - 1)] >>
    ELSE IF caps[4] > 0 THEN << [caps EXCEPT ![4] = Max(0, @ - 1)] >>
    ELSE IF caps[2] > 0 THEN << [caps EXCEPT ![2] = Max(0, @ - 1)] >>
    ELSE IF caps[3] > 0 THEN << [caps EXCEPT ![3] = Max(0, @ - 1)] >>
    ELSE IF caps[1] > FactFloor THEN << [caps EXCEPT ![1] = Max(FactFloor, @ - 1)] >>
    ELSE << >>

\* lines 198-214: the caps after one trim step, << >> when nothing is left to
\* trim
TrimCaps(caps) ==
    IF caps[5] > 0 THEN << [caps EXCEPT ![5] = Max(0, @ - 1)] >>
    ELSE IF caps[4] > 0 THEN << [caps EXCEPT ![4] = Max(0, @ - 1)] >>
    ELSE IF caps[3] > 0 THEN << [caps EXCEPT ![3] = Max(0, @ - 1)] >>
    ELSE IF caps[2] > 0 THEN << [caps EXCEPT ![2] = Max(0, @ - 1)] >>
    ELSE IF caps[1] > FactFloor THEN << [caps EXCEPT ![1] = Max(FactFloor, @ - 1)] >>
    ELSE << >>

\* the end of a call: the length of the string returned and the way out
ReturnText(r, out, how) == [r EXCEPT !.pc = "done", !.out = out, !.how = how]

\* export_context(passport, budget_chars=asked) up to the trimming loop (lines
\* 83-141); asked = 0 stands for a falsy budget_chars
ExportContext(shape, asked) ==
    /\ render.pc = "idle"
    /\ LET budget == Max(MinBudget, IF asked = 0 THEN DefaultBudget ELSE asked)
           caps   == << FactCap, PrefCap, EntityCap, LoopCap, ContradictionCap >>
           lines  == Lines(shape, caps)
           r      == [pc |-> "trim", shape |-> shape, asked |-> asked,
                      budget |-> budget, caps |-> caps, lines |-> lines,
                      iter |-> 0, out |-> 0, how |-> "none"]
       IN  render' = IF JoinLen(lines) > budget THEN r
                     ELSE ReturnText(r, JoinLen(lines), "fits")
    /\ UNCHANGED <<resolverVars, sources, coerced, extracted, ing, env, ingested, hashed>>

\* one iteration of the loop of lines 193-215, or the return of line 217 when
\* the loop has run out
TrimStep ==
    /\ render.pc = "trim"
    /\ LET len == JoinLen(render.lines)
           next == TrimCaps(render.caps)
       IN  render' =
             IF render.iter = TrimIterations
               THEN ReturnText(render, len, "exhausted")
             ELSE IF len <= render.budget
               THEN ReturnText(render, len, "trimmed")
             ELSE IF next = << >>
               THEN ReturnText(render, Min(len, render.budget - 1) + 1, "cut")
             ELSE [render EXCEPT !.caps = next[1],
                                 !.lines = Lines(render.shape, next[1]),
                                 !.iter = @ + 1]
    /\ UNCHANGED <<resolverVars, sources, coerced, extracted, ing, env, ingested, hashed>>

\* the lengths of the item lines: a short one, and a long one for a value
\* near the 220 characters of _val_to_str
ShortLine == 10
LongLine == 230

\* the length of a long user_key
LongUser == 500

\* a budget_chars below the minimum
SmallBudget == 100

\* what a Passport gives the renderer: no facts or more than the cap, the
\* other lists empty or each longer than its cap
Shapes ==
    {[user |-> u, updated |-> 32, facts |-> f,
      prefs |-> x * (PrefCap + 1), entities |-> x * (EntityCap + 1),
      open_loops |-> x * (LoopCap + 1), contradictions |-> x * (ContradictionCap + 1),
      fact_line |-> fl, line |-> l] :
        u \in {0, LongUser}, f \in {0, FactFloor, FactCap + 5}, x \in {0, 1},
        fl \in {ShortLine, LongLine}, l \in {ShortLine, LongLine}}

Budgets == {0, SmallBudget, MinBudget, MinBudget + LongLine, DefaultBudget}

Export == \E shape \in Shapes, asked \in Budgets : ExportContext(shape, asked)

NextRender == Export \/ TrimStep

\* one export_context call
SpecRender == Init /\ [][NextRender]_vars

-----------------------------------------------------------------------------
(* schema.py: Passport.upsert_source *)

MaxUpserts == 3

SourceRef(id, kind, pointer) == [id |-> id, kind |-> kind, source |-> pointer]

\* the positions of the stored SourceRefs with this id
SourcePositions(list, id) == {i \in 1..Len(list) : list[i].id = id}

\* upsert_source without the search for the id: a faulty variant
UpsertAppends(list, src) == Append(list, src)

\* upsert_source (lines 214-222): the first entry with the id of src is
\* replaced where it is, else src is appended
UpsertSource(list, src) ==
    IF SourcePositions(list, src.id) # {}
      THEN [list EXCEPT ![SetMin(SourcePositions(list, src.id))] = src]
      ELSE Append(list, src)

\* one upsert_source call
Upsert(src) ==
    /\ sources.n < MaxUpserts
    /\ sources' = [list |-> UpsertSource(sources.list, src),
                   before |-> sources.list, src |-> src, n |-> sources.n + 1]
    /\ UNCHANGED <<resolverVars, render, coerced, extracted, ing, env, ingested, hashed>>

SourceIds == {"t1", "t2", "i_0"}

SourceUniverse ==
    {SourceRef(id, k.kind, k.source) : id \in SourceIds,
       k \in {[kind |-> "transcript", source |-> "none"],
              [kind |-> "firestore", source |-> "firestore:/a"]}}

NextSources == \E src \in SourceUniverse : Upsert(src)

\* upsert_source calls on an empty Passport
SpecSources == Init /\ [][NextSources]_vars

-----------------------------------------------------------------------------
(* utils.py, on JSON values. A str is the sequence of its characters, a dict  *)
(* the sequence of its (key, value) pairs in insertion order, its keys        *)
(* strings; a text that is only measured is held as its length.               *)

NoneV == [t |-> "none"]
DictV(items) == [t |-> "dict", items |-> items]
ListV(items) == [t |-> "list", items |-> items]
\* a datetime, n seconds after the epoch
DateV(n) == [t |-> "datetime", n |-> n]

\* k in d
Has(d, k) == \E i \in 1..Len(d.items) : d.items[i][1] = k

\* d.get(k, default)
GetOr(d, k, default) ==
    IF Has(d, k)
      THEN d.items[CHOOSE i \in 1..Len(d.items) : d.items[i][1] = k][2]
      ELSE default

\* d.get(k)
Get(d, k) == GetOr(d, k, NoneV)

\* bool(v)
Truthy(v) ==
    CASE v.t = "none" -> FALSE
      [] v.t = "str" -> v.s # << >>
      [] v.t = "int" -> v.n # 0
      [] v.t \in {"dict", "list"} -> v.items # << >>
      [] OTHER -> TRUE

\* a or b
Or(a, b) == IF Truthy(a) THEN a ELSE b

\* str(n) of an int
RECURSIVE Decimal(_)
Decimal(n) ==
    IF n < 0 THEN << "-" >> \o Decimal(0 - n)
    ELSE IF n < 10 THEN << Digits[n + 1] >>
    ELSE Decimal(n \div 10) \o << Digits[(n % 10) + 1] >>

\* the ISO-8601 date 200n-01-01
IsoDay(n) == << "2", "0", "0", Digits[n + 1], "-", "0", "1", "-", "0", "1" >>

\* datetime.fromisoformat of parse_ts (lines 42-47) on the strings of the
\* model: a date 200n-01-01 is the n-th day of the model's time, a string of
\* letters is not a date
ParseIso(s) ==
    IF \E n \in 0..9 : s = IsoDay(n)
      THEN DateV(CHOOSE n \in 0..9 : s = IsoDay(n))
      ELSE NoneV

\* parse_ts (lines 18-49)
parse_ts(value) ==
    CASE value.t = "none" -> NoneV
      [] value.t = "datetime" -> value
      [] value.t = "int" ->
           IF \/ value.n \div 1000000 > 1000000
              \/ value.n \div 1000000 = 1000000 /\ value.n % 1000000 > 0
             THEN DateV(value.n \div 1000)
             ELSE DateV(value.n)
      [] value.t = "str" -> ParseIso(value.s)
      [] OTHER -> NoneV

\* utcnow(): the clock of the run, later than every timestamp of the model
utcnow == DateV(env.now)

\* v in (None, "", [], {}) of pick_first
Blank(v) ==
    \/ v.t = "none"
    \/ v.t = "str" /\ v.s = << >>
    \/ v.t \in {"dict", "list"} /\ v.items = << >>

\* pick_first (lines 140-149): the first non-empty value for the given keys
pick_first(obj, keys) ==
    LET hit == {i \in 1..Len(keys) : Has(obj, keys[i]) /\ ~Blank(Get(obj, keys[i]))}
    IN  IF hit = {} THEN NoneV ELSE Get(obj, keys[SetMin(hit)])

\* the limits of safe_stringify (lines 93-95)
MaxKeysShown == 20
MaxListShown == 20
MaxStrShown == 500

\* len(safe_stringify(obj)) (lines 90-133)
RECURSIVE StringifyLen(_)
StringifyLen(obj) ==
    CASE obj.t = "none" -> 0
      [] obj.t = "str" -> Min(Len(obj.s), MaxStrShown)
      [] obj.t = "int" -> Len(Decimal(obj.n))
      [] obj.t = "list" ->
           LET n == Min(Len(obj.items), MaxListShown)
           IN  2 + SumSeq([i \in 1..n |-> StringifyLen(obj.items[i])])
                 + (IF n > 0 THEN 2 * (n - 1) ELSE 0)
                 + (IF Len(obj.items) > MaxListShown THEN 2 ELSE 0)
      [] obj.t = "dict" ->
           LET n == Min(Len(obj.items), MaxKeysShown)
               more == IF Len(obj.items) > MaxKeysShown THEN 1 ELSE 0
           IN  SumSeq([i \in 1..n |->
                        Len(obj.items[i][1]) + 2 + StringifyLen(obj.items[i][2])])
                 + more
                 + (IF n + more > 0 THEN 2 * (n + more - 1) ELSE 0)
      [] OTHER -> 1

\* len(repr(v)) of a JSON value
RECURSIVE ReprLen(_)
ReprLen(v) ==
    CASE v.t = "none" -> 4
      [] v.t = "str" -> Len(v.s) + 2
      [] v.t = "int" -> Len(Decimal(v.n))
      [] v.t = "list" ->
           2 + SumSeq([i \in 1..Len(v.items) |-> ReprLen(v.items[i])])
             + (IF v.items # << >> THEN 2 * (Len(v.items) - 1) ELSE 0)
      [] v.t = "dict" ->
           2 + SumSeq([i \in 1..Len(v.items) |->
                         Len(v.items[i][1]) + 2 + 2 + ReprLen(v.items[i][2])])
             + (IF v.items # << >> THEN 2 * (Len(v.items) - 1) ELSE 0)
      [] OTHER -> 1

\* len(str(v))
StrLen(v) == IF v.t = "str" THEN Len(v.s) ELSE ReprLen(v)

\* the number a payload hashes to: abs(hash(...)) % 10_000_000 of ingest.py,
\* with the sum of the codes of its characters standing for Python's hash;
\* the hash of a str is salted with the seed of the process (PYTHONHASHSEED,
\* drawn at random at the start of the interpreter unless it is set)
RECURSIVE Code(_)
Code(v) ==
    CASE v.t = "str" -> SumSeq([i \in 1..Len(v.s) |-> Ord(v.s[i])])
      [] v.t \in {"int", "datetime"} -> v.n
      [] v.t = "list" -> 1 + SumSeq([i \in 1..Len(v.items) |-> Code(v.items[i])])
      [] v.t = "dict" ->
           2 + SumSeq([i \in 1..Len(v.items) |->
                         Len(v.items[i][1]) + Code(v.items[i][2])])
      [] OTHER -> 0

HashId(prefix, v) ==
    << prefix >> \o Decimal((Code(v) + env.seed) % 10000000)

-----------------------------------------------------------------------------
(* interaction.py, adapters/, ingest.py: coerce_to_interactions *)

\* Interaction(...), with the fields the callers read; ok tells whether
\* pydantic accepts the arguments: ts a datetime (ts=None is not one), text a
\* str of at least one character, source a str or None
Interaction(ts, type, text, source, data) ==
    [ok |-> ts.t = "datetime" /\ text >= 1 /\ source.t \in {"none", "str"},
     ts |-> ts, type |-> type, text |-> text, source |-> source, data |-> data]

FirestoreTextFields ==
    << "text", "message", "content", "description", "notes", "summary",
       "title", "name", "status" >>

SupabaseTextFields == FirestoreTextFields \o << "action", "event" >>

FirestoreTsFields ==
    << "updatedAt", "updated_at", "createdAt", "created_at", "timestamp", "date" >>

SupabaseTsFields ==
    << "updated_at", "created_at", "timestamp", "date", "updatedAt", "createdAt" >>

\* x or None
OrNone(x) == IF Truthy(x) THEN x ELSE NoneV

\* the text of a document: its first text field, else all of it
DocTextLen(doc, fields) ==
    IF pick_first(doc, fields).t = "none" THEN StringifyLen(doc)
    ELSE StrLen(pick_first(doc, fields))

\* adapters/firestore.py firestore_to_interaction (lines 32-66)
firestore_to_interaction(doc, source) ==
    Interaction(OrNone(parse_ts(pick_first(doc, FirestoreTsFields))), "firestore",
                DocTextLen(doc, FirestoreTextFields), source, doc)

\* f"{prefix}{path}" when path is given, else None
Pointer(prefix, path) == IF Truthy(path) THEN StrV(prefix \o path.s) ELSE NoneV

\* adapters/firestore.py firestore_batch_to_interactions (lines 69-105) on a
\* dict {doc_id: doc}
firestore_batch_to_interactions(docs, collection_path) ==
    [i \in 1..Len(docs.items) |->
        firestore_to_interaction(
            docs.items[i][2],
            IF Truthy(collection_path)
              THEN StrV(<< "f", "i", "r", "e", "s", "t", "o", "r", "e", ":" >>
                        \o collection_path.s \o << "/", docs.items[i][1] >>)
              ELSE NoneV)]

\* adapters/rtdb.py rtdb_to_interaction (lines 20-55)
rtdb_to_interaction(value, path) ==
    Interaction(IF value.t = "dict"
                  THEN OrNone(parse_ts(pick_first(value, FirestoreTsFields)))
                  ELSE NoneV,
                "rtdb", StringifyLen(value),
                Pointer(<< "r", "t", "d", "b", ":" >>, path),
                IF value.t = "dict" THEN value ELSE DictV(<< << "value", value >> >>))

\* adapters/supabase.py supabase_row_to_interaction (lines 35-67), called
\* without source
supabase_row_to_interaction(row, table) ==
    Interaction(OrNone(parse_ts(pick_first(row, SupabaseTsFields))), "supabase",
                DocTextLen(row, SupabaseTextFields),
                Pointer(<< "s", "u", "p", "a", "b", "a", "s", "e", ":" >>, table), row)

\* ingest.py _looks_like_rtdb_envelope, _looks_like_supabase_envelope
LooksLikeRtdb(obj) == Has(obj, "path") /\ (Has(obj, "value") \/ Has(obj, "data"))
LooksLikeSupabase(obj) == Has(obj, "table") /\ (Has(obj, "row") \/ Has(obj, "data"))

HintRtdb == << "r", "t", "d", "b" >>
HintSupabase == << "s", "u", "p", "a", "b", "a", "s", "e" >>
HintFirestore == << "f", "i", "r", "e", "s", "t", "o", "r", "e" >>

\* ingest.py _guess_hint (lines 43-60)
GuessHint(obj) ==
    IF LooksLikeRtdb(obj) THEN StrV(HintRtdb)
    ELSE IF LooksLikeSupabase(obj) THEN StrV(HintSupabase)
    ELSE StrV(HintFirestore)

\* the call raised in the branches via
Raised(via) ==
    [raised |-> TRUE, interactions |-> << >>, sources |-> << >>, via |-> via]

\* the (interactions, sources) a branch returns, via names the branch; a
\* ValidationError of an Interaction leaves the call
Returns(its, srcs, via) ==
    IF \E i \in 1..Len(its) : ~its[i].ok THEN Raised(via)
    ELSE [raised |-> FALSE, interactions |-> its, sources |-> srcs, via |-> via]

\* meta.get("source_id") or the prefix and the hash of the payload
SourceIdOr(meta, prefix, payload) ==
    IF Truthy(Get(meta, "source_id")) THEN Get(meta, "source_id").s
    ELSE HashId(prefix, payload)

\* meta.get("source") or meta.get("source_pointer")
MetaPointer(meta) == Or(Get(meta, "source"), Get(meta, "source_pointer"))

\* used_hint == name or _looks_like_..._envelope(item) (lines 205, 224)
HintOrLooks(used_hint, name, looks) == used_hint = name \/ looks

\* sub_meta of the list branch (lines 193-195)
SubMeta(meta, idx) ==
    IF Has(meta, "source_id") THEN meta
    ELSE DictV(meta.items \o
               << << "source_id", StrV(<< "h", "_" >> \o Decimal(idx)) >> >>)

\* coerce_to_interactions on a dict (lines 201-304)
CoerceDict(item, hint, meta) ==
    LET chosen == Or(hint, Or(Get(item, "_hint"), GuessHint(item)))
        used_hint == Strip(Lower(chosen.s))
    IN  IF chosen.t # "str" THEN Raised(<< >>)
        ELSE IF HintOrLooks(used_hint, HintRtdb, LooksLikeRtdb(item)) THEN
          LET path == Or(Get(item, "path"), MetaPointer(meta))
              it == rtdb_to_interaction(GetOr(item, "value", Get(item, "data")), path)
          IN  Returns(<< it >>,
                      << SourceRef(SourceIdOr(meta, "r", item), "rtdb", it.source) >>,
                      << "rtdb" >>)
        ELSE IF HintOrLooks(used_hint, HintSupabase, LooksLikeSupabase(item)) THEN
          LET table == Or(Get(item, "table"), Get(meta, "table"))
              row == GetOr(item, "row", GetOr(item, "data", item))
              it == supabase_row_to_interaction(
                        IF row.t = "dict" THEN row
                        ELSE DictV(<< << "value", row >> >>), table)
          IN  Returns(<< it >>,
                      << SourceRef(SourceIdOr(meta, "s", item), "supabase", it.source) >>,
                      << "supabase" >>)
        ELSE IF used_hint = HintFirestore THEN
          IF /\ \A i \in 1..Len(item.items) : item.items[i][2].t = "dict"
             /\ \E i \in 1..Len(item.items) : item.items[i][1] # ""
            THEN
              LET its == firestore_batch_to_interactions(
                             item, Or(Get(meta, "source"), Get(meta, "collection_path")))
              IN  Returns(its,
                          [i \in 1..Len(its) |->
                             SourceRef(SourceIdOr(meta, "f", its[i].data),
                                       "firestore", its[i].source)],
                          << "firestore batch" >>)
            ELSE
              LET it == firestore_to_interaction(item, OrNone(MetaPointer(meta)))
              IN  Returns(<< it >>,
                          << SourceRef(SourceIdOr(meta, "f", item), "firestore", it.source) >>,
                          << "firestore doc" >>)
        ELSE
          LET it == Interaction(Or(parse_ts(Get(item, "ts")), utcnow),
                                GetOr(meta, "type", "unknown"),
                                StringifyLen(item), MetaPointer(meta), item)
          IN  Returns(<< it >>,
                      << SourceRef(SourceIdOr(meta, "u", item),
                                   GetOr(meta, "kind", "unknown"), MetaPointer(meta)) >>,
                      << "generic" >>)

\* coerce_to_interactions (lines 146-336); the items of a list are coerced in
\* order from index idx on
RECURSIVE coerce_to_interactions(_, _, _), CoerceList(_, _, _, _)
coerce_to_interactions(item, hint, meta) ==
    CASE item.t = "str" ->
           Returns(<< Interaction(Or(parse_ts(Get(meta, "ts")), utcnow),
                                  GetOr(meta, "type", "transcript"),
                                  Len(item.s), MetaPointer(meta), NoneV) >>,
                   << SourceRef(SourceIdOr(meta, "t", item),
                                GetOr(meta, "kind", "transcript"), MetaPointer(meta)) >>,
                   << "transcript" >>)
      [] item.t = "list" -> CoerceList(item.items, 0, hint, meta)
      [] item.t = "dict" -> CoerceDict(item, hint, meta)
      [] OTHER ->
           Returns(<< Interaction(Or(parse_ts(Get(meta, "ts")), utcnow),
                                  GetOr(meta, "type", "unknown"),
                                  StringifyLen(item), MetaPointer(meta),
                                  DictV(<< << "value", item >> >>)) >>,
                   << SourceRef(SourceIdOr(meta, "x", item),
                                GetOr(meta, "kind", "unknown"), MetaPointer(meta)) >>,
                   << "other" >>)

CoerceList(items, idx, hint, meta) ==
    IF items = << >> THEN Returns(<< >>, << >>, << >>)
    ELSE LET sub == coerce_to_interactions(Head(items), hint, SubMeta(meta, idx))
             rest == CoerceList(Tail(items), idx + 1, hint, meta)
         IN  IF sub.raised THEN sub
             ELSE IF rest.raised THEN Raised(sub.via \o rest.via)
             ELSE Returns(sub.interactions \o rest.interactions,
                          sub.sources \o rest.sources, sub.via \o rest.via)

\* one coerce_to_interactions call
Coerce(item, hint, meta) ==
    /\ coerced.pc = "idle"
    /\ coerced' = [pc |-> "done", item |-> item, hint |-> hint, meta |-> meta,
                   result |-> coerce_to_interactions(item, hint, meta)]
    /\ UNCHANGED <<resolverVars, sources, render, extracted, ing, env, ingested, hashed>>

TextHi == StrV(<< "h", "i" >>)

\* documents: empty, with a text field only, with a timestamp only, with both
DocEmpty == DictV(<< >>)
DocText == DictV(<< << "text", TextHi >> >>)
DocTs == DictV(<< << "timestamp", IntV(1) >> >>)
DocFull == DictV(<< << "text", TextHi >>, << "timestamp", IntV(1) >> >>)
DocIso == DictV(<< << "status", TextHi >>, << "date", StrV(IsoDay(MaxTs)) >> >>)

PathA == StrV(<< "/", "a" >>)

\* what a caller may pass as item
Items ==
    {StrV(<< >>), TextHi, NoneV, IntV(1), ListV(<< >>), ListV(<< TextHi, DocFull >>),
     DocEmpty, DocText, DocTs, DocFull, DocIso,
     DictV(<< << "path", PathA >>, << "value", DocFull >> >>),
     DictV(<< << "path", PathA >>, << "data", TextHi >> >>),
     DictV(<< << "table", TextHi >>, << "row", DocFull >> >>),
     DictV(<< << "_hint", StrV(<< "S", "u", "p", "a", "b", "a", "s", "e", " " >>) >>,
              << "text", TextHi >>, << "timestamp", IntV(1) >> >>),
     DictV(<< << "_hint", StrV(HintRtdb) >>, << "value", DocFull >> >>),
     DictV(<< << "a", DocFull >>, << "b", DocIso >> >>)}

Hints ==
    {NoneV, StrV(HintRtdb), StrV(HintSupabase), StrV(HintFirestore),
     StrV(<< "m", "o", "n", "g", "o" >>)}

Metas ==
    {DictV(<< >>), DictV(<< << "source_id", StrV(<< "m" >>) >> >>),
     DictV(<< << "source", PathA >> >>)}

NextCoerce ==
    \E item \in Items, hint \in Hints, meta \in Metas : Coerce(item, hint, meta)

\* one coerce_to_interactions call on any of the inputs
SpecCoerce == Init /\ [][NextCoerce]_vars

-----------------------------------------------------------------------------
(* The same coerce_to_interactions call in two runs of the program *)

\* a meta that supplies the timestamp
MetaTs == DictV(<< << "ts", StrV(IsoDay(1)) >> >>)

\* a meta that supplies the timestamp and the source id
MetaTsId == DictV(<< << "ts", StrV(IsoDay(1)) >>, << "source_id", StrV(<< "m" >>) >> >>)

\* the interpreters the program may be started in: Python draws the seed of
\* its str hashes at the start, and the clock has moved on or not
Processes == {[seed |-> s, now |-> n] : s \in {0, 1}, n \in {MaxTs + 1, MaxTs + 2}}

\* the program is started again, in the interpreter e
Restart(e) ==
    /\ coerced.pc = "done"
    /\ env' = e
    /\ coerced' = [coerced EXCEPT !.pc = "restarted"]
    /\ UNCHANGED <<resolverVars, sources, render, extracted, ing, ingested, hashed>>

\* the call of the first run is made again, with the same arguments
CoerceAgain ==
    /\ coerced.pc = "restarted"
    /\ coerced' = [pc |-> "again", item |-> coerced.item, hint |-> coerced.hint,
                   meta |-> coerced.meta, result |-> coerced.result,
                   again |-> coerce_to_interactions(coerced.item, coerced.hint,
                                                    coerced.meta)]
    /\ UNCHANGED <<resolverVars, sources, render, extracted, ing, ingested, env, hashed>>

CoerceOnce ==
    \E item \in Items, meta \in Metas \cup {MetaTs, MetaTsId} : Coerce(item, NoneV, meta)

NextRuns == CoerceOnce \/ (\E e \in Processes : Restart(e)) \/ CoerceAgain

\* one coerce_to_interactions call, and the same call in a second run
SpecRuns == Init /\ [][NextRuns]_vars

-----------------------------------------------------------------------------
(* Updates of entities *)

NameAl    == << "A", "l" >>
NameAlLow == << "a", "l" >>
NameAlUp  == << "A", "L" >>
NameBo    == << "B", "o" >>
NameCy    == << "C", "y" >>
NameBoPad == << " ", "b", "o" >>
NameBlank == << " " >>

AliasLists == { << >>, << NameBo >>, << NameAlUp, NameCy >> }

EntityUniverse ==
    {Entity(n, t, a) :
        n \in {NameAl, NameAlLow, NameBo, NameCy},
        t \in {"other", "person"}, a \in AliasLists}
    \cup {Entity(n, "other", a) : n \in {NameBoPad, NameBlank}, a \in AliasLists}
    \cup {Entity(NameAlLow, "project", a) : a \in AliasLists}

\* the updates that carry two entities
EntityPairUniverse ==
    {<< Entity(n, "other", << >>), Entity(m, "person", a) >> :
        n \in {NameBo, NameCy}, m \in {NameAl, NameCy},
        a \in {<< NameBo >>, << NameAlUp, NameCy >>}}

EntityUpdates ==
    {[NoUpdate EXCEPT !.entities = << e >>] : e \in EntityUniverse}
    \cup {[NoUpdate EXCEPT !.entities = ee] : ee \in EntityPairUniverse}

MergeEntities == \E U \in EntityUpdates : Merge(U)

NextEntities == MergeEntities \/ Remerge

\* merges of entities
SpecEntities == Init /\ [][NextEntities]_vars

-----------------------------------------------------------------------------
(* Updates of open loops *)

\* schema.OpenLoop
OpenLoop(item, ts, source) == [item |-> item, ts |-> ts, source |-> source]

ItemAB      == << "a", " ", "b" >>
ItemABWide  == << "A", " ", " ", "b" >>
ItemABTab   == << " ", "a", "\t", "b" >>
ItemC       == << "c" >>
ItemBlank   == << " " >>

LoopUniverse ==
    {OpenLoop(i, t, src) :
        i \in {ItemAB, ItemABWide, ItemABTab, ItemC, ItemBlank},
        t \in Timestamps, src \in {"t1", "t2"}}

\* the updates that carry two open loops
LoopPairUniverse ==
    {<< OpenLoop(ItemAB, t, "t1"), OpenLoop(ItemABWide, u, "t2") >> :
        t \in Timestamps, u \in Timestamps}

LoopUpdates ==
    {[NoUpdate EXCEPT !.open_loops = << l >>] : l \in LoopUniverse}
    \cup {[NoUpdate EXCEPT !.open_loops = ll] : ll \in LoopPairUniverse}

MergeLoops == \E U \in LoopUpdates : Merge(U)

NextLoops == MergeLoops \/ Remerge

\* merges of open loops
SpecLoops == Init /\ [][NextLoops]_vars

-----------------------------------------------------------------------------
(* Updates that carry items of every kind *)

MixedFacts ==
    {Fact(KeyLower, v, t, 9, "t1") : v \in {ValX, ValOne}, t \in Timestamps}

MixedEntities ==
    {Entity(NameBo, "person", << >>), Entity(NameAl, "other", << NameCy >>),
     Entity(NameAlLow, "project", << NameBo >>)}

MixedLoops ==
    {OpenLoop(i, t, "t2") : i \in {ItemAB, ItemC}, t \in Timestamps}

MixedUpdates ==
    {[NoUpdate EXCEPT !.facts = << f >>] : f \in MixedFacts}
    \cup {[NoUpdate EXCEPT !.prefs = << p >>] : p \in PrefUniverse}
    \cup {[NoUpdate EXCEPT !.entities = << e >>] : e \in MixedEntities}
    \cup {[NoUpdate EXCEPT !.open_loops = << l >>] : l \in MixedLoops}
    \cup {[facts |-> << f, Fact(KeyLower, ValOne, 1, 5, "t2") >>,
           prefs |-> << Fact(KeyLower, f.value, 1, 5, "t2") >>,
           entities |-> << Entity(NameCy, "other", << >>), e >>,
           open_loops |-> << OpenLoop(ItemABWide, 1, "t1"), l >>] :
            f \in {Fact(KeySnake, v, t, 9, "t1") : v \in {ValX, ValOne},
                                                     t \in Timestamps},
            e \in {Entity(NameAl, "other", << NameBo >>)},
            l \in {OpenLoop(ItemC, MaxTs, "t2")}}

MergeMixed == \E U \in MixedUpdates : Merge(U)

Next == MergeMixed \/ Remerge

\* merges of updates of every kind
Spec == Init /\ [][Next]_vars

-----------------------------------------------------------------------------
(* extractor.py: Extractor._validate_and_normalize on the parsed response *)

\* float(item.get("confidence", 0.7)) raises: the value is no number (None, a
\* word)
ConfidenceRaises(item) ==
    Has(item, "confidence") /\ Get(item, "confidence").t # "int"

\* float(item.get("confidence", 0.7)), in tenths
Confidence(item) ==
    IF Has(item, "confidence") THEN Get(item, "confidence").n ELSE 7

\* utils.normalize_key as the extractor calls it: "" for a falsy value
NormalizedKey(v) == IF Truthy(v) THEN normalize_key(v.s) ELSE << >>

\* what the try block does with one item of facts or prefs (lines 72-83):
\* "raise" when an argument of Fact(...) raises (item["key"] of an item without
\* key, .strip() of a number, float() of a word), "drop" when Fact(...) raises
\* ValidationError (empty key, confidence outside 0..1, ts=None), else "keep"
KVOutcome(item) ==
    IF item.t # "dict" \/ ~Has(item, "key") THEN "raise"
    ELSE IF Truthy(Get(item, "key")) /\ Get(item, "key").t # "str" THEN "raise"
    ELSE IF ConfidenceRaises(item) THEN "raise"
    ELSE IF \/ Strip(NormalizedKey(Get(item, "key"))) = << >>
            \/ Confidence(item) < 0 \/ Confidence(item) > 10
            \/ parse_ts(Get(item, "ts")).t # "datetime"
      THEN "drop"
    ELSE "keep"

\* the Fact or Preference of an item that is kept
KVBuilt(item, source_id) ==
    Fact(NormalizedKey(Get(item, "key")), Get(item, "value"),
         parse_ts(Get(item, "ts")).n, Confidence(item), source_id)

\* item.get("type", "other") as an EntityType; of the nine literals the
\* responses of the model use two
EntityTypeOf(item) ==
    IF ~Has(item, "type") THEN "other"
    ELSE IF Get(item, "type") = StrV(<< "p", "e", "r", "s", "o", "n" >>) THEN "person"
    ELSE IF Get(item, "type") = StrV(<< "o", "t", "h", "e", "r" >>) THEN "other"
    ELSE "invalid"

\* what the try block does with one item of entities (lines 98-107)
EntityOutcome(item) ==
    IF item.t # "dict" \/ ~Has(item, "name") THEN "raise"
    ELSE IF \/ Get(item, "name").t # "str" \/ Get(item, "name").s = << >>
            \/ EntityTypeOf(item) = "invalid"
            \/ Or(Get(item, "aliases"), ListV(<< >>)).t # "list"
      THEN "drop"
    ELSE "keep"

EntityBuilt(item, source_id) ==
    Entity(Get(item, "name").s, EntityTypeOf(item),
           [i \in 1..Len(Or(Get(item, "aliases"), ListV(<< >>)).items) |->
               Or(Get(item, "aliases"), ListV(<< >>)).items[i].s])

\* what the try block does with one item of open_loops (lines 109-118)
LoopOutcome(item) ==
    IF item.t # "dict" \/ ~Has(item, "item") THEN "raise"
    ELSE IF \/ Get(item, "item").t # "str" \/ Get(item, "item").s = << >>
            \/ parse_ts(Get(item, "ts")).t # "datetime"
      THEN "drop"
    ELSE "keep"

LoopBuilt(item, source_id) ==
    OpenLoop(Get(item, "item").s, parse_ts(Get(item, "ts")).n, source_id)

Outcome(kind, item) ==
    CASE kind \in {"facts", "prefs"} -> KVOutcome(item)
      [] kind = "entities" -> EntityOutcome(item)
      [] kind = "open_loops" -> LoopOutcome(item)

Built(kind, item, source_id) ==
    CASE kind \in {"facts", "prefs"} -> KVBuilt(item, source_id)
      [] kind = "entities" -> EntityBuilt(item, source_id)
      [] kind = "open_loops" -> LoopBuilt(item, source_id)

\* data.get(kind, [])
Listed(data, kind) == GetOr(data, kind, ListV(<< >>)).items

\* one loop of _validate_and_normalize: the objects built from the items that
\* are kept, in order
Kept(data, kind, source_id) ==
    LET items == Listed(data, kind)
        keep == {i \in 1..Len(items) : Outcome(kind, items[i]) = "keep"}
    IN  Tuple([p \in 1..Cardinality(keep) |->
                 Built(kind, Pick(items, keep)[p], source_id)])

\* an exception other than ValidationError leaves the function
Raises(data) ==
    \E kind \in {"facts", "prefs", "entities", "open_loops"} :
        \E i \in 1..Len(Listed(data, kind)) :
            Outcome(kind, Listed(data, kind)[i]) = "raise"

\* Extractor._validate_and_normalize (lines 61-120)
ValidateAndNormalize(data, source_id) ==
    IF Raises(data)
      THEN [raised |-> TRUE, facts |-> << >>, prefs |-> << >>,
            entities |-> << >>, open_loops |-> << >>]
      ELSE [raised |-> FALSE,
            facts |-> Kept(data, "facts", source_id),
            prefs |-> Kept(data, "prefs", source_id),
            entities |-> Kept(data, "entities", source_id),
            open_loops |-> Kept(data, "open_loops", source_id)]

\* one _validate_and_normalize call
Validate(data, source_id) ==
    /\ extracted.pc = "idle"
    /\ extracted' = [pc |-> "done", data |-> data, source_id |-> source_id,
                     result |-> ValidateAndNormalize(data, source_id)]
    /\ UNCHANGED <<resolverVars, sources, render, coerced, ing, env, ingested, hashed>>

\* the items of a response: a key, a value and a date; no ts; a ts that is no
\* date; no key; a blank key; a confidence above 1
JsonItem(key, ts, more) ==
    DictV((IF key = NoneV THEN << >> ELSE << << "key", key >> >>)
          \o << << "value", ValX >> >>
          \o (IF ts = NoneV THEN << >> ELSE << << "ts", ts >> >>)
          \o more)

KVItems ==
    {JsonItem(StrV(KeyTitle), StrV(IsoDay(1)), << >>),
     JsonItem(StrV(KeyTitle), NoneV, << >>),
     JsonItem(StrV(KeyTitle), TextHi, << >>),
     JsonItem(NoneV, StrV(IsoDay(1)), << >>),
     JsonItem(StrV(ItemBlank), StrV(IsoDay(1)), << >>),
     JsonItem(StrV(KeyTitle), StrV(IsoDay(MaxTs)), << << "confidence", IntV(11) >> >>)}

EntityItems ==
    {DictV(<< << "name", StrV(NameAl) >>,
              << "aliases", ListV(<< StrV(NameBo), StrV(NameBoPad) >>) >> >>),
     DictV(<< << "type", StrV(<< "p", "e", "r", "s", "o", "n" >>) >> >>),
     DictV(<< << "name", StrV(NameAl) >>, << "type", TextHi >> >>)}

LoopItems ==
    {DictV(<< << "item", StrV(ItemC) >>, << "ts", StrV(IsoDay(1)) >> >>),
     DictV(<< << "item", StrV(ItemC) >> >>),
     DictV(<< << "ts", StrV(IsoDay(1)) >> >>)}

\* the longest list of facts in a response
MaxItems == 2

\* the lists of at most n of the items
ListsOf(S, n) ==
    {ListV(<< >>)} \cup {ListV(<< x >>) : x \in S}
    \cup (IF n >= 2 THEN {ListV(<< x, y >>) : x \in S, y \in S} ELSE {})

Responses ==
    {DictV(<< << "facts", f >>, << "prefs", p >>, << "entities", e >>,
              << "open_loops", o >> >>) :
        f \in ListsOf(KVItems, MaxItems),
        p \in ListsOf({JsonItem(StrV(KeyTitle), NoneV, << >>)}, 1),
        e \in ListsOf(EntityItems, 1), o \in ListsOf(LoopItems, 1)}

NextExtract == \E data \in Responses : Validate(data, "t1")

\* one _validate_and_normalize call on any of the responses
SpecExtract == Init /\ [][NextExtract]_vars

-----------------------------------------------------------------------------
(* core.py: SozoGraph.ingest. The calls of the fallback summarizer and of the *)
(* extractor go to a remote model: each either raises or answers.             *)

\* IngestConfig.max_interaction_chars (ingest.py line 26)
MaxInteractionChars == 4000

\* _is_text_too_weak (ingest.py lines 63-78) on the length of a text without
\* blanks at its ends: the texts of the model are shorter than the 30
\* characters below which the function looks no further
TextTooWeak(text) == text < 30

\* for s in sources: base.upsert_source(s) (core.py lines 92-93)
RECURSIVE UpsertAll(_, _)
UpsertAll(list, srcs) ==
    IF srcs = << >> THEN list
    ELSE UpsertAll(UpsertSource(list, Head(srcs)), Tail(srcs))

\* the source id of the idx-th Interaction (core.py lines 106-114), idx from 0
SourceIdOf(meta, it, idx) ==
    IF Truthy(Get(meta, "source_id")) THEN Get(meta, "source_id").s
    ELSE IF Truthy(it.source) THEN HashId("src_", it.source)
    ELSE << "i_" >> \o Decimal(idx)

\* the call has ended: by an exception raised at the step named, or by its
\* return; held tells whether the caller has a reference to base: from the
\* return value, or because base is the Passport the caller passed
Ended(r, pc, at) ==
    [r EXCEPT !.pc = pc, !.at = at, !.held = r.given \/ pc = "returned"]

\* SozoGraph.ingest(data, passport=..., meta=meta, hint=hint) up to the loop
\* (core.py lines 85-101); given: the caller passes its Passport, else base is
\* a new Passport(); answer: what the fallback summarizer does when it is
\* called, 0 when it raises, else the length of its summary
Ingest(data, hint, meta, given, answer) ==
    /\ ing.pc = "idle"
    /\ LET c == coerce_to_interactions(data, hint, meta)
           r == [pc |-> "extract", at |-> "none", given |-> given, held |-> given,
                 meta |-> meta, interactions |-> c.interactions, idx |-> 0,
                 merged |-> << >>]
           weak == \E i \in 1..Len(c.interactions) :
                      TextTooWeak(Min(c.interactions[i].text, MaxInteractionChars))
           texts == [i \in 1..Len(c.interactions) |->
                       IF TextTooWeak(Min(c.interactions[i].text, MaxInteractionChars))
                         THEN [c.interactions[i] EXCEPT !.text = answer]
                         ELSE [c.interactions[i] EXCEPT
                                  !.text = Min(@, MaxInteractionChars)]]
       IN  IF c.raised
             THEN /\ ing' = Ended(r, "raised", "coerce")
                  /\ UNCHANGED sources
             ELSE /\ sources' = [list |-> UpsertAll(sources.list, c.sources),
                                 before |-> sources.list,
                                 src |-> IF c.sources = << >> THEN sources.src
                                         ELSE c.sources[Len(c.sources)],
                                 n |-> sources.n + Len(c.sources)]
                  /\ ing' = IF weak /\ answer = 0
                              THEN Ended(r, "raised", "summarize")
                            ELSE IF c.interactions = << >>
                              THEN Ended(r, "returned", "none")
                            ELSE [r EXCEPT !.interactions = texts]
    /\ UNCHANGED <<resolverVars, render, coerced, extracted, env, ingested, hashed>>

\* one turn of the loop of core.py lines 104-125 in which extract raises: the
\* call of the model fails, its text is no JSON, or _validate_and_normalize
\* raises
ExtractFails ==
    /\ ing.pc = "extract"
    /\ ing' = Ended(ing, "raised", "extract")
    /\ UNCHANGED <<resolverVars, sources, render, coerced, extracted, env, ingested, hashed>>

\* a loop that takes the Interactions from the last to the first: a faulty
\* variant
TurnReversed(r) == Len(r.interactions) - r.idx

\* for idx, it in enumerate(interactions) (core.py line 104): the place in the
\* list of the Interaction of the turn that follows idx completed turns
Turn(r) == r.idx + 1

\* one turn of the loop in which the model answers data: the update is merged
\* into base; after the last Interaction the call returns
ExtractMerges(data) ==
    /\ ing.pc = "extract"
    /\ ~Raises(data)
    /\ LET it == ing.interactions[Turn(ing)]
           source_id == SourceIdOf(ing.meta, it, ing.idx)
           update == ValidateAndNormalize(data, source_id)
           U == [facts |-> update.facts, prefs |-> update.prefs,
                 entities |-> update.entities, open_loops |-> update.open_loops]
           r == [ing EXCEPT !.idx = @ + 1,
                            !.merged = Append(@, [it |-> it, source_id |-> source_id,
                                                  update |-> U])]
       IN  /\ Call([passport EXCEPT !.facts = Forget(@), !.prefs = Forget(@)],
                   U, "ingest")
           /\ ing' = IF ing.idx + 1 = Len(ing.interactions)
                       THEN Ended(r, "returned", "none") ELSE r

\* what the caller passes as data: a transcript, two transcripts, a transcript
\* and a document, a document, an empty list, an empty transcript
TextYo == StrV(<< "y", "o" >>)

IngestData ==
    {TextHi, ListV(<< TextHi, TextYo >>), ListV(<< TextHi, DocFull >>), DocFull,
     ListV(<< >>), StrV(<< >>)}

\* what the extractor's model answers: an item of each kind, two facts, or
\* nothing
Answers ==
    {DictV(<< << "facts", ListV(<< JsonItem(StrV(KeyTitle), StrV(IsoDay(1)), << >>) >>) >>,
              << "prefs", ListV(<< JsonItem(StrV(KeySnake), StrV(IsoDay(1)), << >>) >>) >>,
              << "open_loops", ListV(<< JsonItem(NoneV, StrV(IsoDay(1)),
                                                 << << "item", StrV(ItemC) >> >>) >>) >> >>),
     DictV(<< << "facts", ListV(<< JsonItem(StrV(KeyLower), StrV(IsoDay(MaxTs)), << >>),
                                   JsonItem(StrV(KeySnake), StrV(IsoDay(1)), << >>) >>) >> >>),
     DictV(<< >>)}

IngestCall ==
    \E data \in IngestData, meta \in Metas, given \in BOOLEAN,
       answer \in {0, MaxInteractionChars} :
        Ingest(data, NoneV, meta, given, answer)

ExtractOk == \E data \in Answers : ExtractMerges(data)

NextIngest == IngestCall \/ ExtractFails \/ ExtractOk

\* one SozoGraph.ingest call on a new Passport
SpecIngest == Init /\ [][NextIngest]_vars

-----------------------------------------------------------------------------
(* ingest.py: apply_fallback_summaries and the module-level ingest() *)

\* _is_text_too_weak (lines 63-78) on the length of a text: noisy tells
\* whether fewer than 35 in 100 of its characters are letters or digits
TooWeak(text, noisy) == text < 30 \/ noisy

\* the loop body of apply_fallback_summaries (lines 368-390) for one
\* Interaction, with max = cfg.max_interaction_chars >= 1: the text is cut to
\* max - 1 characters and an ellipsis, and a weak text gives way to the first
\* max characters of the summary, of answer characters
Summarized(it, max, noisy, answer) ==
    LET txt == IF it.text > max THEN (max - 1) + 1 ELSE it.text
    IN  IF TooWeak(txt, noisy) THEN [it EXCEPT !.text = Min(answer, max)]
        ELSE [it EXCEPT !.text = txt]

\* apply_fallback_summaries(interactions, api_key=..., cfg=...) (lines
\* 339-392); answer is what the summarizer does when it is called: 0 when it
\* raises, else the length of its summary
apply_fallback_summaries(its, enabled, api_key, max, noisy, answer) ==
    IF ~enabled THEN [raised |-> FALSE, interactions |-> its]
    ELSE IF ~api_key THEN [raised |-> FALSE, interactions |-> its]
    ELSE IF answer = 0 /\ \E i \in 1..Len(its) :
                             TooWeak(Min(its[i].text, max), noisy)
      THEN [raised |-> TRUE, interactions |-> << >>]
    ELSE [raised |-> FALSE,
          interactions |-> Tuple([i \in 1..Len(its) |->
                                     Summarized(its[i], max, noisy, answer)])]

\* touch() left out: a faulty variant
TouchNot(p, now) == p

\* Passport.touch() (schema.py lines 224-225) at clock value now
Touch(p, now) == [p EXCEPT !.updated_at = now]

\* the module-level ingest(passport, item, meta=meta, api_key=..., cfg=...)
\* (lines 399-437); cfg holds enabled and max
IngestItem(item, meta, cfg, api_key, noisy, answer) ==
    /\ ingested.pc = "idle"
    /\ LET c == coerce_to_interactions(item, NoneV, meta)
           a == apply_fallback_summaries(c.interactions, cfg.enabled, api_key,
                                         cfg.max, noisy, answer)
           r == [item |-> item, meta |-> meta, cfg |-> cfg, api_key |-> api_key,
                 coerced |-> c.interactions]
       IN  IF c.raised \/ a.raised
             THEN /\ ingested' = [pc |-> "raised", call |-> r, interactions |-> << >>]
                  /\ passport' = passport
                  /\ UNCHANGED sources
             ELSE /\ ingested' = [pc |-> "returned", call |-> r,
                                  interactions |-> a.interactions]
                  /\ sources' = [list |-> UpsertAll(sources.list, c.sources),
                                 before |-> sources.list,
                                 src |-> IF c.sources = << >> THEN sources.src
                                         ELSE c.sources[Len(c.sources)],
                                 n |-> sources.n + Len(c.sources)]
                  /\ passport' = Touch(passport, calls + 1)
    /\ pre' = passport
    /\ calls' = calls + 1
    /\ op' = "touch"
    /\ UNCHANGED <<upd, results, stats, history, transitions, swapped, render,
                   coerced, extracted, ing, env, hashed>>

\* the length of a text longer than the small limit
LongText == 40

\* a max_interaction_chars below the default
SmallMax == 35

TextLong == StrV(Repeat(LongText, "a"))

Configs == {[enabled |-> e, max |-> m] : e \in BOOLEAN, m \in {SmallMax, MaxInteractionChars}}

SummariesCall ==
    /\ calls = 0
    /\ \E item \in {TextHi, TextLong, ListV(<< TextHi, TextLong >>), DocFull, DocEmpty},
          meta \in Metas, cfg \in Configs, api_key \in BOOLEAN, noisy \in BOOLEAN,
          answer \in {0, 1, LongText} :
           IngestItem(item, meta, cfg, api_key, noisy, answer)

\* one call of the module-level ingest() on a new Passport, under every
\* configuration
SpecSummaries == Init /\ [][SummariesCall]_vars

FrameCall ==
    \E item \in {TextHi, ListV(<< TextHi, DocFull >>), DocEmpty}, meta \in Metas,
       api_key \in BOOLEAN, answer \in {0, 1} :
        IngestItem(item, meta, [enabled |-> TRUE, max |-> MaxInteractionChars],
                   api_key, FALSE, answer)

\* a caller merges an update that carries facts
FrameMerge == \E U \in {V \in MixedUpdates : V.facts # << >>} : Merge(U)

NextFrame == FrameMerge \/ FrameCall

\* merges into a Passport and one call of the module-level ingest() on it
SpecFrame == Init /\ [][NextFrame]_vars

-----------------------------------------------------------------------------
(* utils.py: sha256_json *)

\* the keys of the mappings below, as sorted() orders them
SortedKeys == << "a", "b", "c" >>

\* the items of a dict in the order they were inserted: a faulty variant
InsertionOrder(items) == items

\* sort_keys=True of json.dumps: the items of a dict in the order of their
\* keys
SortItems(items) ==
    LET at(k) == CHOOSE i \in 1..Len(items) : items[i][1] = k
        keys == SelectSeq(SortedKeys,
                          LAMBDA k : \E i \in 1..Len(items) : items[i][1] = k)
    IN  Tuple([i \in 1..Len(keys) |-> items[at(keys[i])]])

\* the characters of a str as json.dumps writes them between the quotes
RECURSIVE Escaped(_)
Escaped(s) ==
    IF s = << >> THEN << >>
    ELSE (IF Head(s) \in {"\"", "\\"} THEN << "\\", Head(s) >> ELSE << Head(s) >>)
         \o Escaped(Tail(s))

\* json.dumps(obj, sort_keys=True, ensure_ascii=False, default=str) (line 80),
\* character by character
RECURSIVE Dumps(_), DumpsItems(_), DumpsPairs(_)
Dumps(v) ==
    CASE v.t = "none" -> << "n", "u", "l", "l" >>
      [] v.t = "int" -> Decimal(v.n)
      [] v.t = "str" -> << "\"" >> \o Escaped(v.s) \o << "\"" >>
      [] v.t = "list" -> << "[" >> \o DumpsItems(v.items) \o << "]" >>
      [] v.t = "dict" -> << "{" >> \o DumpsPairs(SortItems(v.items)) \o << "}" >>

DumpsItems(items) ==
    IF items = << >> THEN << >>
    ELSE Dumps(Head(items))
         \o (IF Tail(items) = << >> THEN << >> ELSE << ",", " " >>)
         \o DumpsItems(Tail(items))

DumpsPairs(items) ==
    IF items = << >> THEN << >>
    ELSE << "\"", Head(items)[1], "\"", ":", " " >> \o Dumps(Head(items)[2])
         \o (IF Tail(items) = << >> THEN << >> ELSE << ",", " " >>)
         \o DumpsPairs(Tail(items))

\* sha256_json(obj) (lines 75-83): the payload stands for its digest, SHA-256
\* being taken as free of collisions
sha256_json(obj) == Dumps(obj)

\* sha256_json(x) and sha256_json(y)
HashBoth(x, y) ==
    /\ hashed.pc = "idle"
    /\ hashed' = [pc |-> "done", x |-> x, y |-> y,
                  hx |-> sha256_json(x), hy |-> sha256_json(y)]
    /\ UNCHANGED <<resolverVars, sources, render, coerced, extracted, ing, ingested,
                   env>>

ObjAB == DictV(<< << "a", IntV(1) >>, << "b", StrV(<< "1" >>) >> >>)
ObjBA == DictV(<< << "b", StrV(<< "1" >>) >>, << "a", IntV(1) >> >>)

\* JSON values: null, numbers, strings, arrays and objects, the objects with
\* their entries inserted in one order and in the other, at two levels
JsonValues ==
    {NoneV, IntV(0), IntV(1), IntV(12), StrV(<< >>), StrV(<< "1" >>),
     StrV(<< "1", "2" >>), StrV(<< "\"" >>), StrV(<< "n", "u", "l", "l" >>),
     ListV(<< >>), ListV(<< IntV(1), IntV(2) >>), ListV(<< IntV(2), IntV(1) >>),
     ListV(<< IntV(12) >>), ListV(<< StrV(<< "1" >>), IntV(2) >>),
     DictV(<< >>), ObjAB, ObjBA,
     DictV(<< << "a", IntV(1) >> >>),
     DictV(<< << "a", StrV(<< "1" >>) >>, << "b", IntV(1) >> >>),
     DictV(<< << "c", ObjAB >>, << "a", ListV(<< ObjBA >>) >> >>),
     DictV(<< << "a", ListV(<< ObjAB >>) >>, << "c", ObjBA >> >>),
     DictV(<< << "a", ListV(<< ObjAB >>) >>, << "c", ObjAB >>, << "b", NoneV >> >>)}

NextHash == \E x \in JsonValues, y \in JsonValues : HashBoth(x, y)

\* one pair of sha256_json calls
SpecHash == Init /\ [][NextHash]_vars

-----------------------------------------------------------------------------
(* What the records of the steps say about the Passport *)

KVKinds == {"facts", "prefs"}

\* an update object with its key as the upsert stores it
Normalised(o) == [o EXCEPT !.key = NormKey(o.key)]

\* the number of the positions of s that hold x
Occurrences(s, x) == Cardinality({i \in 1..Len(s) : s[i] = x})

\* the contradictions the steps of the last call returned, in the order of the
\* steps
Returned ==
    LET all == results.facts \o results.prefs
        hit == SelectSeq(all, LAMBDA r : r.c # << >>)
    IN  Tuple([i \in 1..Len(hit) |-> hit[i].c[1]])

\* the Passport after the last call is what its steps left: the ledger holds
\* the records it held before and the ones the steps returned, each as often,
\* the steps follow one another on the ledger, and the entries stored under a
\* key are the ones its last step left
StepsLinked ==
    /\ \A c \in Range(passport.contradictions) \cup Range(pre.contradictions)
                \cup Range(Returned) :
          Occurrences(passport.contradictions, c)
            = Occurrences(pre.contradictions, c) + Occurrences(Returned, c)
    /\ LET all == results.facts \o results.prefs
       IN  /\ \A i \in 1..Len(all) :
                all[i].nc_before = IF i = 1 THEN Len(pre.contradictions)
                                   ELSE all[i - 1].nc_after
           /\ Len(passport.contradictions)
                = IF all = << >> THEN Len(pre.contradictions)
                  ELSE all[Len(all)].nc_after
    /\ \A kind \in KVKinds : \A i \in 1..Len(results[kind]) :
          LET key == NormKey(results[kind][i].incoming.key)
          IN  (\A j \in (i + 1)..Len(results[kind]) :
                  NormKey(results[kind][j].incoming.key) # key)
              => Matching(passport[kind], key) = results[kind][i].after

\* the step found the key stored with another value
Conflicts(step) ==
    /\ step.before # << >>
    /\ ~ValueEqual(step.before[1].value, step.incoming.value)

\* the step found the key stored with an equal value
Agrees(step) ==
    /\ step.before # << >>
    /\ ValueEqual(step.before[1].value, step.incoming.value)

-----------------------------------------------------------------------------
(* Claims about facts and preferences, under SpecKV *)

\* C1: temporal priority. For every key ever merged, the Passport stores one
\* Fact (one Preference) under it, and its value equals, as _value_equal
\* compares, the value of an update of the greatest ts among all the updates
\* ever merged for that key.
C1_TemporalPriority ==
    \A h \in history :
        LET list   == IF h.kind = "fact" THEN passport.facts ELSE passport.prefs
            same   == {g \in history : g.kind = h.kind /\ g.key = h.key}
            top    == SetMax({g.ts : g \in same})
            stored == Matching(list, h.key)
        IN  /\ Len(stored) = 1
            /\ \E g \in same : g.ts = top /\ ValueEqual(stored[1].value, g.value)

\* C1 witness: a key was merged with two different values, and the last call
\* brought the older one, which did not replace the stored one.
C1_Witness ==
    /\ op = "merge"
    /\ \E i \in 1..Len(results.facts) :
          /\ Conflicts(results.facts[i])
          /\ results.facts[i].incoming.ts < results.facts[i].before[1].ts
    /\ \E h, g \in history :
          /\ h.kind = g.kind /\ h.key = g.key
          /\ ~ValueEqual(h.value, g.value) /\ h.ts < g.ts

\* C2: newer conflicting update. When a step finds the key stored with a
\* different value and the incoming ts is >= the stored ts, the incoming entry
\* replaces the stored one and exactly one Contradiction is appended, with old
\* and ts_old/source_old from the previous entry and new and ts_new/source_new
\* from the incoming one.
C2_NewerConflict ==
    /\ StepsLinked
    /\ \A kind \in KVKinds : \A i \in 1..Len(results[kind]) :
          LET step == results[kind][i]
              inc  == Normalised(step.incoming)
              old  == step.before[1]
          IN  (Conflicts(step) /\ inc.ts >= old.ts)
              => /\ step.after = << inc >>
                 /\ step.c = << Contradiction(inc.key, old.value, inc.value,
                                              old.ts, inc.ts, old.source, inc.source) >>
                 /\ step.nc_after = step.nc_before + 1

\* C2 witness: a call whose update differs in value from the stored entry and
\* carries the very ts of the stored entry.
C2_Witness ==
    /\ op = "merge"
    /\ \E kind \in KVKinds : \E i \in 1..Len(results[kind]) :
          /\ Conflicts(results[kind][i])
          /\ results[kind][i].incoming.ts = results[kind][i].before[1].ts

\* C3: older conflicting update. When a step finds the key stored with a
\* different value and the incoming ts is older than the stored ts, the stored
\* entry is kept as it is and exactly one Contradiction is appended, with the
\* incoming value on its old side, the stored value on its new side and
\* ts_old < ts_new.
C3_OlderConflict ==
    /\ StepsLinked
    /\ \A kind \in KVKinds : \A i \in 1..Len(results[kind]) :
          LET step == results[kind][i]
              inc  == Normalised(step.incoming)
              cur  == step.before[1]
          IN  (Conflicts(step) /\ inc.ts < cur.ts)
              => /\ step.after = << cur >>
                 /\ Len(step.c) = 1
                 /\ step.c[1].key = inc.key
                 /\ step.c[1].old = inc.value /\ step.c[1].new = cur.value
                 /\ step.c[1].ts_old = inc.ts /\ step.c[1].ts_new = cur.ts
                 /\ step.c[1].source_old = inc.source
                 /\ step.c[1].source_new = cur.source
                 /\ step.c[1].ts_old < step.c[1].ts_new
                 /\ step.nc_after = step.nc_before + 1

\* C3 witness: a call brought an older update of a stored preference with
\* another value.
C3_Witness ==
    /\ op = "merge"
    /\ \E i \in 1..Len(results.prefs) :
          /\ Conflicts(results.prefs[i])
          /\ results.prefs[i].incoming.ts < results.prefs[i].before[1].ts

\* C4: equal-value update. When a step finds the key stored (the keys compared
\* stripped and lowercased) with an equal value, no Contradiction is recorded,
\* the step is not counted as an upsert, one entry remains under the normalised
\* key, its ts is the later of the two with the source of that later ts, and
\* its confidence is the greater of the two.
C4_EqualValue ==
    /\ StepsLinked
    /\ stats.facts_upserted
         = Cardinality({i \in 1..Len(results.facts) : results.facts[i].updated})
    /\ stats.prefs_upserted
         = Cardinality({i \in 1..Len(results.prefs) : results.prefs[i].updated})
    /\ \A kind \in KVKinds : \A i \in 1..Len(results[kind]) :
          LET step == results[kind][i]
              inc  == Normalised(step.incoming)
              cur  == step.before[1]
          IN  Agrees(step)
              => /\ step.c = << >>
                 /\ step.nc_after = step.nc_before
                 /\ ~step.updated
                 /\ Len(step.after) = 1
                 /\ step.after[1].key = inc.key
                 /\ ValueEqual(step.after[1].value, inc.value)
                 /\ step.after[1].ts = SetMax({cur.ts, inc.ts})
                 /\ \E x \in {cur, inc} :
                       x.ts = step.after[1].ts /\ x.source = step.after[1].source
                 /\ step.after[1].confidence = SetMax({cur.confidence, inc.confidence})

\* C4 witness: an update whose key differs in case from the stored key and
\* whose value differs from the stored one by a trailing blank, newer than the
\* stored entry and of a greater confidence.
C4_Witness ==
    /\ op = "merge"
    /\ \E i \in 1..Len(results.facts) :
          LET step == results.facts[i]
          IN  /\ Agrees(step)
              /\ step.incoming.key # step.before[1].key
              /\ step.incoming.value # step.before[1].value
              /\ step.incoming.ts > step.before[1].ts
              /\ step.incoming.confidence > step.before[1].confidence

\* the Passport without updated_at and without the identities of the objects
Content(pp) ==
    [facts          |-> Tuple([i \in 1..Len(pp.facts) |-> KVObj(pp.facts[i])]),
     prefs          |-> Tuple([i \in 1..Len(pp.prefs) |-> KVObj(pp.prefs[i])]),
     entities       |-> pp.entities,
     open_loops     |-> pp.open_loops,
     contradictions |-> pp.contradictions]

\* C5: merge idempotence. Merging the update of the last call a second time
\* leaves the Passport as the first merge left it, updated_at aside, and adds
\* no Contradiction.
C5_MergeIdempotent ==
    op = "remerge"
    => /\ Content(passport) = Content(pre)
       /\ stats.contradictions_added = 0
       /\ Len(passport.contradictions) = Len(pre.contradictions)

\* C6: key uniqueness. No two Facts and no two Preferences of the Passport have
\* keys that utils.normalize_key maps to the same key.
C6_KeyUniqueness ==
    \A kind \in KVKinds : \A i, j \in 1..Len(passport[kind]) :
        i # j => normalize_key(passport[kind][i].key) # normalize_key(passport[kind][j].key)

-----------------------------------------------------------------------------
(* Claims about entities, under SpecEntities *)

\* the names an entity goes by: its name and its aliases, stripped and
\* lowercased
Labels(e) == {EntityKey(e.name)} \cup AliasKeys(e)

\* C7: entity uniqueness. No two Entities of the Passport share a name or an
\* alias under the lowercase-trimmed comparison.
C7_EntityUniqueness ==
    \A i, j \in 1..Len(passport.entities) :
        i # j => Labels(passport.entities[i]) \cap Labels(passport.entities[j]) = {}

\* the incoming entity matches an entity of the list: by name, by its name being
\* an alias, or by one of its aliases being a name or an alias
MatchesSome(inc, entities) ==
    \E e \in Range(entities) : Labels(inc) \cap Labels(e) # {}

\* the position of the first element of cands that strips and lowercases to k
FirstAs(cands, k) == SetMin({i \in 1..Len(cands) : Lower(Strip(cands[i])) = k})

\* the Passport's entities after the last call are what the steps left
EntityStepsLinked ==
    LET rs == results.entities
    IN  /\ \A i \in 1..Len(rs) :
              rs[i].before = IF i = 1 THEN pre.entities ELSE rs[i - 1].after
        /\ LET last == IF rs = << >> THEN pre.entities ELSE rs[Len(rs)].after
           IN  /\ Len(passport.entities) = Len(last)
               /\ \A e \in Range(last) \cup Range(passport.entities) :
                     Occurrences(passport.entities, e) = Occurrences(last, e)

\* the incoming name differs from the canonical name, stripped and lowercased
NameDiffers(ex, inc) == EntityKey(ex.name) # EntityKey(inc.name)

\* the merge rule; blank_added tells whether a blank incoming name counts as a
\* name to add
EntityMergeRule(blank_added) ==
    /\ EntityStepsLinked
    /\ \A i \in 1..Len(results.entities) :
          LET step  == results.entities[i]
              inc   == step.incoming
              ex    == step.existing[1]
              m     == step.merged
              n     == Len(ex.aliases)
              added == NameDiffers(ex, inc)
                         /\ (blank_added \/ Strip(inc.name) # << >>)
              cands == (IF added THEN << inc.name >> ELSE << >>) \o inc.aliases
              keys(as) == {Lower(Strip(a)) : a \in Range(as)}
          IN  MatchesSome(inc, step.before)
              => /\ Len(step.existing) = 1
                 /\ Labels(inc) \cap Labels(ex) # {}
                 \* a single entity, under the canonical name
                 /\ \E at \in 1..Len(step.before) :
                       /\ step.before[at] = ex
                       /\ step.after = [step.before EXCEPT ![at] = m]
                 /\ m.name = ex.name
                 \* the existing aliases, then the new ones in first-seen order
                 /\ Len(m.aliases) >= n
                 /\ SubSeq(m.aliases, 1, n) = ex.aliases
                 /\ keys(m.aliases) = keys(ex.aliases) \cup keys(cands)
                 /\ \A q \in (n + 1)..Len(m.aliases) :
                       /\ m.aliases[q] = Strip(cands[FirstAs(cands, Lower(m.aliases[q]))])
                       /\ \A r \in (q + 1)..Len(m.aliases) :
                             FirstAs(cands, Lower(m.aliases[q]))
                               < FirstAs(cands, Lower(m.aliases[r]))
                 \* no two aliases equal case-insensitively
                 /\ \A q, r \in 1..Len(m.aliases) :
                       q # r => Lower(m.aliases[q]) # Lower(m.aliases[r])
                 \* the type changes only from other to the incoming type
                 /\ m.type # ex.type
                      => ex.type = "other" /\ m.type = inc.type
                 /\ (ex.type = "other" /\ inc.type # "other") => m.type = inc.type

\* C8 as stated: entity merge rule. When an incoming entity matches an existing
\* one (by name, by name-equals-alias, or by any alias), the result is a single
\* entity that keeps the existing canonical name, whose aliases are the
\* existing ones followed by the new ones in first-seen order with no two equal
\* case-insensitively, to which the incoming name is added as an alias exactly
\* when it differs case-insensitively from the canonical name, and whose type
\* changes only from other to a more specific incoming type.
C8_EntityMergeRule == EntityMergeRule(TRUE)

\* C8 amended: the same, with the incoming name added as an alias exactly when
\* it is not blank and differs from the canonical name under the
\* lowercase-trimmed comparison.
C8_EntityMergeRuleAmended == EntityMergeRule(FALSE)

\* C8 witness: an incoming entity that matched none by its name but one by an
\* alias, and whose name and second alias were both added after the existing
\* aliases, with the type raised from other.
C8_Witness ==
    /\ op = "merge"
    /\ \E i \in 1..Len(results.entities) :
          LET step == results.entities[i]
          IN  /\ Len(step.existing) = 1
              /\ EntityKey(step.incoming.name) \notin Labels(step.existing[1])
              /\ step.existing[1].aliases # << >>
              /\ Len(step.merged.aliases) >= Len(step.existing[1].aliases) + 2
              /\ step.existing[1].type = "other"
              /\ step.merged.type = "person"

-----------------------------------------------------------------------------
(* Claims about open loops, under SpecLoops *)

\* C9: open-loop dedupe. No two OpenLoops of the Passport have the same
\* whitespace-collapsed lowercase item; when an incoming loop has the
\* normalised item of a stored one, one loop remains under it: the incoming
\* one if it is strictly newer, the stored one otherwise.
C9_OpenLoopDedupe ==
    /\ \A i, j \in 1..Len(passport.open_loops) :
          i # j => LoopNorm(passport.open_loops[i].item)
                     # LoopNorm(passport.open_loops[j].item)
    /\ \A i \in 1..Len(results.open_loops) :
          LET step == results.open_loops[i]
              rest == Tuple([j \in 1..(Len(results.open_loops) - i) |->
                               results.open_loops[i + j].incoming])
          IN  /\ step.before # << >>
                 => /\ Len(step.after) = 1
                    /\ step.after[1] = IF step.incoming.ts > step.before[1].ts
                                       THEN step.incoming ELSE step.before[1]
                    /\ step.after[1].ts >= step.incoming.ts
                    /\ step.after[1].ts >= step.before[1].ts
              /\ SameLoops(rest, step.incoming.item) = << >>
                 => SameLoops(passport.open_loops, step.incoming.item) = step.after

\* C9 witness: a strictly newer incoming loop, written differently, replaced
\* the stored loop of the same normalised item.
C9_Witness ==
    /\ op = "merge"
    /\ \E i \in 1..Len(results.open_loops) :
          LET step == results.open_loops[i]
          IN  /\ step.before # << >>
              /\ step.incoming.item # step.before[1].item
              /\ step.incoming.ts > step.before[1].ts
              /\ step.after = << step.incoming >>

-----------------------------------------------------------------------------
(* Claims about the Passport as a whole, under Spec *)

\* C10: ordering invariant. After every merge_passport_update call, facts and
\* prefs are sorted by (key ascending, ts descending), entities by
\* (lowercase-trimmed name ascending, type ascending), open loops by (ts
\* descending, lowercase item ascending) and contradictions by (key ascending,
\* ts_new descending).
C10_Ordering ==
    LET KVBefore(x, y) ==
            StrLt(x.key, y.key) \/ (x.key = y.key /\ x.ts > y.ts)
        EntityBefore(x, y) ==
            \/ StrLt(Lower(Strip(x.name)), Lower(Strip(y.name)))
            \/ Lower(Strip(x.name)) = Lower(Strip(y.name)) /\ TypeLt(x.type, y.type)
        LoopBefore(x, y) ==
            x.ts > y.ts \/ (x.ts = y.ts /\ StrLt(Lower(x.item), Lower(y.item)))
        ContradictionBefore(x, y) ==
            StrLt(x.key, y.key) \/ (x.key = y.key /\ x.ts_new > y.ts_new)
    IN  /\ \A i, j \in 1..Len(passport.facts) :
              i < j => ~KVBefore(passport.facts[j], passport.facts[i])
        /\ \A i, j \in 1..Len(passport.prefs) :
              i < j => ~KVBefore(passport.prefs[j], passport.prefs[i])
        /\ \A i, j \in 1..Len(passport.entities) :
              i < j => ~EntityBefore(passport.entities[j], passport.entities[i])
        /\ \A i, j \in 1..Len(passport.open_loops) :
              i < j => ~LoopBefore(passport.open_loops[j], passport.open_loops[i])
        /\ \A i, j \in 1..Len(passport.contradictions) :
              i < j => ~ContradictionBefore(passport.contradictions[j],
                                           passport.contradictions[i])

\* C10 witness: a call whose steps stored two facts, two entities and two open
\* loops and returned two contradictions, each pair left in the reverse of the
\* order of its steps.
C10_Witness ==
    /\ op = "merge"
    /\ Len(passport.facts) = 2 /\ Len(results.facts) = 2
    /\ Len(results.facts[1].after) = 1
    /\ KVObj(passport.facts[2]) = results.facts[1].after[1]
    /\ Len(passport.entities) = 2 /\ Len(results.entities) = 2
    /\ passport.entities[2] = results.entities[1].merged
    /\ passport.entities[1] = results.entities[2].merged
    /\ Len(passport.open_loops) = 2 /\ Len(results.open_loops) = 2
    /\ passport.open_loops[2] = results.open_loops[1].incoming
    /\ passport.open_loops[1] = results.open_loops[2].incoming
    /\ Len(passport.contradictions) = 2 /\ Len(Returned) = 2
    /\ passport.contradictions = << Returned[2], Returned[1] >>

-----------------------------------------------------------------------------
(* Claims about the contradiction ledger, under SpecKV *)

\* C11: contradiction ledger. For every key, the number of the Contradiction
\* records with that key equals the number of the distinct changes of value
\* met for that key across the merges.
C11_LedgerCount ==
    \A k \in {c.key : c \in Range(passport.contradictions)}
              \cup {t.key : t \in transitions} :
        Cardinality({i \in 1..Len(passport.contradictions) :
                        passport.contradictions[i].key = k})
          = Cardinality({t \in transitions : t.key = k})

-----------------------------------------------------------------------------
(* Claims about the order of merges, under SpecOrder *)

\* C12: commutativity on equal-value updates. For two updates of one key whose
\* values are equal, merged into a Passport that does not hold the key with
\* another value, either order leaves the same stored entry (value, ts,
\* source, confidence) and no Contradiction.
C12_EqualValueCommute ==
    op = "pair"
    => LET a    == swapped.a.facts[1]
           b    == swapped.b.facts[1]
           held == Matching(swapped.base.facts, NormKey(a.key))
           ab   == Matching(passport.facts, NormKey(a.key))
           ba   == Matching(swapped.passport.facts, NormKey(a.key))
       IN  (/\ NormKey(a.key) = NormKey(b.key)
            /\ ValueEqual(a.value, b.value)
            /\ \A i \in 1..Len(held) : ValueEqual(held[i].value, a.value))
           => /\ Len(ab) = 1 /\ Len(ba) = 1
              /\ ValueEqual(ab[1].value, ba[1].value)
              /\ ab[1].ts = ba[1].ts
              /\ ab[1].source = ba[1].source
              /\ ab[1].confidence = ba[1].confidence
              /\ passport.contradictions = swapped.base.contradictions
              /\ swapped.passport.contradictions = swapped.base.contradictions

\* C13: the contradiction ledger is append-only. Every Contradiction held
\* before a merge_passport_update call is held after it, all seven fields
\* unchanged and as many times; the call only adds records, and may reorder
\* them.
C13_LedgerAppendOnly ==
    /\ Len(passport.contradictions) >= Len(pre.contradictions)
    /\ \A c \in Range(pre.contradictions) :
          /\ DOMAIN c = {"key", "old", "new", "ts_old", "ts_new",
                         "source_old", "source_new"}
          /\ Occurrences(passport.contradictions, c)
               >= Occurrences(pre.contradictions, c)

\* C13 witness: a call on a Passport that held a Contradiction added one that
\* the sort placed before it.
C13_Witness ==
    /\ op = "merge"
    /\ pre.contradictions # << >>
    /\ Len(passport.contradictions) > Len(pre.contradictions)
    /\ passport.contradictions[1] \notin Range(pre.contradictions)
    /\ passport.contradictions[Len(passport.contradictions)]
         \in Range(pre.contradictions)

-----------------------------------------------------------------------------
(* Claims about the renderer, under SpecRender *)

\* C14: render budget. For every budget B >= 400 the string export_context
\* returns has at most B + 1 characters, and the trimming loop ends by an
\* output within the budget or by the hard truncation, never by running out
\* of iterations.
C14_RenderBudget ==
    /\ render.pc = "done" /\ render.asked >= MinBudget
       => /\ render.out <= render.asked + 1
          /\ render.how \in {"fits", "trimmed", "cut"}
    /\ render.pc = "trim" => render.iter < TrimIterations

\* C14 witness: a call that trimmed every section to its floor and then
\* truncated the text to the budget.
C14_Witness ==
    /\ render.pc = "done" /\ render.asked >= MinBudget
    /\ render.how = "cut"
    /\ render.caps = << FactFloor, 0, 0, 0, 0 >>
    /\ render.out = render.asked

-----------------------------------------------------------------------------
(* Claims about Passport.sources, under SpecSources *)

\* C15: SourceRef uniqueness. After any sequence of upsert_source calls on an
\* empty Passport the sources list holds at most one SourceRef per id; an
\* upsert of an id already present replaces that entry where it is and leaves
\* the number of sources unchanged, any other upsert appends.
C15_SourceUniqueness ==
    /\ \A i, j \in 1..Len(sources.list) :
          sources.list[i].id = sources.list[j].id => i = j
    /\ sources.n > 0 =>
          LET at == SourcePositions(sources.before, sources.src.id)
          IN  IF at # {}
                THEN /\ Len(sources.list) = Len(sources.before)
                     /\ \A i \in 1..Len(sources.before) :
                           sources.list[i] =
                             IF i \in at THEN sources.src ELSE sources.before[i]
                ELSE sources.list = Append(sources.before, sources.src)

\* C15 witness: an upsert replaced the first of two stored SourceRefs by
\* one of another kind.
C15_Witness ==
    /\ Len(sources.before) = 2 /\ Len(sources.list) = 2
    /\ sources.before[1].id = sources.src.id
    /\ sources.before[1] # sources.src
    /\ sources.list[1] = sources.src

-----------------------------------------------------------------------------
(* Claims about coerce_to_interactions, under SpecCoerce *)

\* the hint a caller or the mapping gives, lower-cased and stripped
Given(h) == Strip(Lower(h.s))

\* the adapter the heuristic names for a mapping
ByShape(item) ==
    IF LooksLikeRtdb(item) THEN "rtdb"
    ELSE IF LooksLikeSupabase(item) THEN "supabase"
    ELSE IF /\ \A i \in 1..Len(item.items) : item.items[i][2].t = "dict"
            /\ item.items # << >>
      THEN "firestore batch"
    ELSE "firestore doc"

\* the adapter a given hint names for a mapping
ByHint(h, item) ==
    IF h = HintRtdb THEN "rtdb"
    ELSE IF h = HintSupabase THEN "supabase"
    ELSE IF h = HintFirestore
      THEN (IF ByShape(item) = "firestore batch" THEN "firestore batch"
            ELSE "firestore doc")
    ELSE "generic"

\* C17: shape dispatch priority. For a mapping the adapter is chosen by the
\* hint parameter when it is given, else by the _hint field of the mapping
\* when it has one, and only else by the shape of the mapping; a given hint is
\* never overridden by the shape.
C17_DispatchPriority ==
    coerced.pc = "done" /\ coerced.item.t = "dict" =>
        coerced.result.via =
          << IF Truthy(coerced.hint) THEN ByHint(Given(coerced.hint), coerced.item)
             ELSE IF Truthy(Get(coerced.item, "_hint"))
               THEN ByHint(Given(Get(coerced.item, "_hint")), coerced.item)
             ELSE ByShape(coerced.item) >>

\* C18: coerce_to_interactions never fails the call. For every input it
\* returns Interactions of non-empty text with their SourceRefs and does not
\* raise.
C18_NeverFails ==
    coerced.pc = "done" =>
        /\ ~coerced.result.raised
        /\ Len(coerced.result.sources) = Len(coerced.result.interactions)
        /\ \A i \in 1..Len(coerced.result.interactions) :
              coerced.result.interactions[i].text >= 1

-----------------------------------------------------------------------------
(* Claims about the extractor, under SpecExtract *)

\* an item has its required field and what else its class asks for, whether
\* or not it carries a ts that can be parsed
WellFormed(kind, item) ==
    CASE kind \in {"facts", "prefs"} ->
           /\ Has(item, "key") /\ NormalizedKey(Get(item, "key")) # << >>
           /\ ~ConfidenceRaises(item) /\ Confidence(item) \in 0..10
      [] kind = "entities" ->
           /\ Has(item, "name") /\ Truthy(Get(item, "name"))
           /\ EntityTypeOf(item) # "invalid"
      [] kind = "open_loops" -> Has(item, "item") /\ Truthy(Get(item, "item"))

\* C19: extractor per-item validation. An item without its required field or
\* otherwise invalid is dropped without an exception, and every other item of
\* the response, with or without a ts that can be parsed, is returned, its key
\* normalized and its source the source id supplied.
C19_PerItemValidation ==
    extracted.pc = "done" =>
        /\ ~extracted.result.raised
        /\ \A kind \in {"facts", "prefs", "entities", "open_loops"} :
              LET items == Listed(extracted.data, kind)
                  valid == Pick(items, {i \in 1..Len(items) : WellFormed(kind, items[i])})
                  got == extracted.result[kind]
              IN  /\ Len(got) = Len(valid)
                  /\ \A i \in 1..Len(got) :
                        /\ kind \in {"facts", "prefs"} =>
                              /\ got[i].key = normalize_key(Get(valid[i], "key").s)
                              /\ got[i].source = extracted.source_id
                        /\ kind = "entities" => got[i].name = Get(valid[i], "name").s
                        /\ kind = "open_loops" =>
                              /\ got[i].item = Get(valid[i], "item").s
                              /\ got[i].source = extracted.source_id

-----------------------------------------------------------------------------
(* Claims about SozoGraph.ingest, under SpecIngest *)

\* the ids of the SourceRefs of the Passport
SourceRefIds == {sources.list[i].id : i \in 1..Len(sources.list)}

\* the sources named by the Facts, Preferences and OpenLoops of the Passport
NamedSources ==
    {passport.facts[i].source : i \in 1..Len(passport.facts)}
    \cup {passport.prefs[i].source : i \in 1..Len(passport.prefs)}
    \cup {passport.open_loops[i].source : i \in 1..Len(passport.open_loops)}

\* C16: provenance integrity. When SozoGraph.ingest has returned, the source
\* of every Fact, Preference and OpenLoop it merged into the Passport is the
\* id of a SourceRef in the sources of the Passport.
C16_ProvenanceIntegrity ==
    ing.pc = "returned" => NamedSources \subseteq SourceRefIds

\* the Passport after the updates ms are merged one after the other into base
RECURSIVE MergedInto(_, _, _)
MergedInto(base, ms, now) ==
    IF ms = << >> THEN base
    ELSE MergedInto(
           MergePassportUpdate([base EXCEPT !.facts = Forget(@), !.prefs = Forget(@)],
                               Head(ms).update, now).passport,
           Tail(ms), now + 1)

\* the lists of a Passport, without the identity of the objects
Lists(p) ==
    [facts |-> Tuple([i \in 1..Len(p.facts) |-> KVObj(p.facts[i])]),
     prefs |-> Tuple([i \in 1..Len(p.prefs) |-> KVObj(p.prefs[i])]),
     entities |-> p.entities, open_loops |-> p.open_loops,
     contradictions |-> p.contradictions]

\* the Passport holds what the Interactions before the failing one produced
PriorStateKept ==
    ing.pc = "raised" /\ ing.at = "extract" =>
        /\ ing.idx = Len(ing.merged)
        /\ Lists(passport) = Lists(MergedInto(EmptyPassport, ing.merged, 1))

\* C20: extractor failure is all-or-nothing per Interaction. When the
\* extractor call for the k-th Interaction of an ingest call fails, the call
\* raises, the Passport is in the state the Interactions 1..k-1 produced, and
\* what they merged is retained for the caller.
C20_ExtractorFailure ==
    /\ PriorStateKept
    /\ ing.pc = "raised" /\ ing.at = "extract" => ing.held

-----------------------------------------------------------------------------
(* Claims about the statistics and the timestamps of a merge, under SpecKV *)

\* the step appended its incoming object, or put it in the place of a stored
\* entry of another value
Counted(step) ==
    \/ /\ step.before = << >>
       /\ Len(step.after) = 1
       /\ KVObj(step.after[1]) = KVObj(Normalised(step.incoming))
    \/ /\ Conflicts(step)
       /\ KVObj(step.after[1]) = KVObj(Normalised(step.incoming))

\* the number of the steps that appended or replaced
NumCounted(rs) == Cardinality({i \in 1..Len(rs) : Counted(rs[i])})

\* C25: ResolveStats accuracy. After every merge_passport_update call,
\* facts_upserted (prefs_upserted) is the number of the incoming facts (prefs)
\* that were appended or that replaced a stored entry, an update of an equal
\* value and an older update of another value not being counted, and
\* contradictions_added is the number of the Contradiction records the call
\* appended to the Passport.
C25_StatsAccuracy ==
    op # "init" =>
        /\ stats.facts_upserted = NumCounted(results.facts)
        /\ stats.prefs_upserted = NumCounted(results.prefs)
        /\ stats.contradictions_added
             = Len(passport.contradictions) - Len(pre.contradictions)
        /\ \A kind \in KVKinds : \A i \in 1..Len(results[kind]) :
              LET r == results[kind][i]
              IN  (Agrees(r) \/ (Conflicts(r) /\ r.incoming.ts < r.before[1].ts))
                    => ~Counted(r)

\* a call that replaced a stored entry and added a contradiction for it, and
\* that met an update it did not count: one of an equal value, or an older one
\* of another value
C25_Witness ==
    /\ op # "init"
    /\ stats.contradictions_added > 0
    /\ \E kind \in KVKinds : \E i, j \in 1..Len(results[kind]) :
          /\ Counted(results[kind][i]) /\ Conflicts(results[kind][i])
          /\ ~Counted(results[kind][j])
          /\ stats[IF kind = "facts" THEN "facts_upserted" ELSE "prefs_upserted"]
               < Len(results[kind])

\* the keys, as the resolver compares them, of the entries of a list
KeysOf(list) == {NormKey(list[i].key) : i \in 1..Len(list)}

\* the ts of the incoming objects that the steps of the last call upserted
\* under a key
IncomingTs(kind, key) ==
    {results[kind][i].incoming.ts :
        i \in {j \in 1..Len(results[kind]) :
                  NormKey(results[kind][j].incoming.key) = key}}

\* the ts stored under a key, none when the key is not stored
StoredTs(list, key) ==
    IF Matching(list, key) = << >> THEN {} ELSE {Matching(list, key)[1].ts}

\* C28: monotone timestamps. Every merge_passport_update call leaves each
\* Fact and each Preference key that was stored before it, or that it was
\* handed, stored, with a ts equal to the maximum of the ts stored before and
\* the ts of the incoming updates for that key: the stored ts never decreases
\* and a stored key is never removed.
C28_MonotoneTimestamps ==
    op # "init" =>
        \A kind \in KVKinds :
            \A key \in KeysOf(pre[kind])
                        \cup {NormKey(results[kind][i].incoming.key) :
                                 i \in 1..Len(results[kind])} :
                /\ StoredTs(passport[kind], key) # {}
                /\ StoredTs(passport[kind], key)
                     = {SetMax(StoredTs(pre[kind], key) \cup IncomingTs(kind, key))}

\* a call that found a key stored and was handed only older updates for it:
\* the key keeps the ts it had
C28_Witness ==
    /\ op # "init"
    /\ \E kind \in KVKinds : \E key \in KeysOf(pre[kind]) :
          /\ IncomingTs(kind, key) # {}
          /\ SetMax(IncomingTs(kind, key)) < SetMax(StoredTs(pre[kind], key))
          /\ StoredTs(passport[kind], key) = StoredTs(pre[kind], key)

\* the steps of the last call that recorded a Contradiction
Recording == {r \in Range(results.facts) \cup Range(results.prefs) : r.c # << >>}

\* C29: every Contradiction that merge_passport_update records has
\* ts_old <= ts_new, and its new side is the value stored for the key right
\* after the update that produced it; ts_old = ts_new happens only when an
\* incoming update of another value ties the stored ts, and then the incoming
\* value is the one stored.
C29_ContradictionDirection ==
    /\ \A c \in Range(passport.contradictions) : c.ts_old <= c.ts_new
    /\ \A r \in Recording :
          /\ r.c[1].ts_old <= r.c[1].ts_new
          /\ Len(r.after) = 1
          /\ r.c[1].new = r.after[1].value
          /\ r.c[1].key = r.after[1].key
          /\ r.c[1].ts_new = r.after[1].ts
          /\ r.c[1].ts_old = r.c[1].ts_new =>
                /\ Conflicts(r)
                /\ r.incoming.ts = r.before[1].ts
                /\ r.after[1].value = r.incoming.value
                /\ r.c[1].old = r.before[1].value

\* a call that recorded a Contradiction for an update that tied the stored
\* ts, and one that recorded a Contradiction for an older update
C29_Witness ==
    /\ \E r \in Recording : r.c[1].ts_old = r.c[1].ts_new
    /\ \E c \in Range(passport.contradictions) : c.ts_old < c.ts_new
    /\ \E c \in Range(passport.contradictions) : c.ts_old = c.ts_new

-----------------------------------------------------------------------------
(* Claims about the trimming order of the renderer, under SpecRender *)

\* the caps export_context starts from
StartCaps == << FactCap, PrefCap, EntityCap, LoopCap, ContradictionCap >>

\* the place of a section of caps in the order of trimming: contradictions
\* first, facts last
TrimRank(k) == 6 - k

\* C26: render trimming order. While export_context enforces the budget the
\* caps go down one step at an iteration, in the order contradictions, open
\* loops, entities, prefs, facts: a cap is below its start only when the caps
\* of all the sections before it in that order are 0; the facts cap is never
\* below 5; and the hard truncation, to budget_chars - 1 characters and an
\* ellipsis, happens only at the caps facts 5 and 0 for the others.
C26_TrimOrder ==
    render.pc # "idle" =>
        /\ \A k \in 1..5 :
              /\ render.caps[k] <= StartCaps[k]
              /\ render.caps[k] >= IF k = 1 THEN FactFloor ELSE 0
              /\ render.caps[k] < StartCaps[k] =>
                    \A j \in 1..5 : TrimRank(j) < TrimRank(k) => render.caps[j] = 0
        /\ SumSeq(StartCaps) - SumSeq(render.caps) = render.iter
        /\ render.how = "cut" =>
              /\ render.caps = << FactFloor, 0, 0, 0, 0 >>
              /\ render.out = render.budget

\* a call in the middle of trimming: the contradictions and the open loops
\* are gone, the entities are being lowered and the prefs and facts are
\* untouched
C26_Witness ==
    /\ render.pc = "trim"
    /\ render.caps[5] = 0 /\ render.caps[4] = 0
    /\ render.caps[3] > 0 /\ render.caps[3] < EntityCap
    /\ render.caps[2] = PrefCap /\ render.caps[1] = FactCap
    /\ render.iter = ContradictionCap + LoopCap + (EntityCap - render.caps[3])

-----------------------------------------------------------------------------
(* Claims about the provenance of a list input, under SpecCoerce *)

\* the id ends with "_" and the decimal digits of idx
EndsWithIndex(id, idx) ==
    LET suffix == << "_" >> \o Decimal(idx)
    IN  /\ Len(id) >= Len(suffix)
        /\ SubSeq(id, Len(id) - Len(suffix) + 1, Len(id)) = suffix

\* C27: a list input keeps per-element provenance. For a list input and every
\* meta, with or without a source_id of the caller, coerce_to_interactions
\* gives each element a source id that ends with the index of the element, so
\* the SourceRefs of different elements have different ids and all of them
\* are in the sources of the Passport after the upsert.
C27_ListProvenance ==
    coerced.pc = "done" /\ coerced.item.t = "list" /\ ~coerced.result.raised =>
        LET srcs == coerced.result.sources
        IN  /\ Len(srcs) = Len(coerced.item.items)
            /\ \A i \in 1..Len(srcs) : EndsWithIndex(srcs[i].id, i - 1)
            /\ \A i, j \in 1..Len(srcs) : srcs[i].id = srcs[j].id => i = j
            /\ Len(UpsertAll(<< >>, srcs)) = Len(srcs)

-----------------------------------------------------------------------------
(* Claims about the order of the merges of an ingest call, under SpecIngest *)

\* C21: temporal-truth guarantee. Within one SozoGraph.ingest call the
\* results of the extractor are merged into the Passport one Interaction at a
\* time, in the order of the Interactions in the coerced list: the k-th merge
\* is the one of the k-th Interaction, as many merges are completed as turns
\* were taken, and the Passport is what the merges made of it one after the
\* other in that order.
C21_MergeOrder ==
    ing.pc \in {"extract", "returned"} =>
        /\ Len(ing.merged) = ing.idx
        /\ calls = ing.idx
        /\ ing.idx <= Len(ing.interactions)
        /\ ing.pc = "returned" => ing.idx = Len(ing.interactions)
        /\ \A k \in 1..Len(ing.merged) :
              /\ ing.merged[k].it = ing.interactions[k]
              /\ ing.merged[k].source_id
                   = SourceIdOf(ing.meta, ing.interactions[k], k - 1)
        /\ Lists(passport) = Lists(MergedInto(EmptyPassport, ing.merged, 1))

\* a call that returned after it merged the results of two different
\* Interactions, the second of which changed what the first had stored
C21_Witness ==
    /\ ing.pc = "returned"
    /\ Len(ing.merged) = 2
    /\ ing.interactions[1] # ing.interactions[2]
    /\ ing.merged[1].update # ing.merged[2].update
    /\ ing.merged[1].source_id # ing.merged[2].source_id
    /\ passport.facts # << >>

-----------------------------------------------------------------------------
(* Claims about the runs of coerce_to_interactions, under SpecRuns *)

\* the call is given a timestamp: in meta, or in a field of the document
TimestampSupplied ==
    \/ parse_ts(Get(coerced.meta, "ts")).t = "datetime"
    \/ /\ coerced.item.t = "dict"
       /\ parse_ts(pick_first(coerced.item, FirestoreTsFields)).t = "datetime"

\* C23: adapter determinism. For the same input and the same meta, with a
\* timestamp supplied, coerce_to_interactions gives the same Interactions and
\* the same SourceRefs in every run, whatever the time and the process.
C23_AdapterDeterminism ==
    coerced.pc = "again" /\ TimestampSupplied => coerced.again = coerced.result

-----------------------------------------------------------------------------
(* Claims about the module-level ingest(), under SpecSummaries and SpecFrame *)

\* C22: bounded Interaction text. After apply_fallback_summaries returns,
\* under every configuration (summarizer enabled or not, API key present or
\* not), the text of every Interaction has at most cfg.max_interaction_chars
\* characters.
C22_BoundedText ==
    ingested.pc = "returned" =>
        \A i \in 1..Len(ingested.interactions) :
            ingested.interactions[i].text <= ingested.call.cfg.max

\* C30: frame of ingest. The module-level ingest() changes the sources of the
\* Passport, by upsert, and its updated_at, and nothing else: the facts,
\* prefs, entities, open_loops and contradictions are the ones it found, and
\* every call that completes sets updated_at to the time of the call.
C30_IngestFrame ==
    op = "touch" =>
        /\ passport.facts = pre.facts
        /\ passport.prefs = pre.prefs
        /\ passport.entities = pre.entities
        /\ passport.open_loops = pre.open_loops
        /\ passport.contradictions = pre.contradictions
        /\ ingested.pc = "returned" =>
              /\ passport.updated_at = calls
              /\ passport.updated_at > pre.updated_at
              /\ \A s \in Range(sources.before) :
                    \E t \in Range(sources.list) : t.id = s.id
        /\ ingested.pc = "raised" => passport = pre

\* a call of ingest() that completed on a Passport that held facts,
\* contradictions and sources, and that added a source
C30_Witness ==
    /\ op = "touch" /\ ingested.pc = "returned"
    /\ pre.facts # << >>
    /\ pre.contradictions # << >>
    /\ pre.updated_at > 0
    /\ Len(sources.list) > Len(sources.before)

-----------------------------------------------------------------------------
(* Claims about sha256_json, under SpecHash *)

\* two JSON values are canonically equal: both null, the same number, the
\* same string, arrays of canonically equal elements in the same order, or
\* objects with the same keys and canonically equal values under each key
RECURSIVE CanonEq(_, _)
CanonEq(x, y) ==
    /\ x.t = y.t
    /\ CASE x.t = "none" -> TRUE
         [] x.t = "int" -> x.n = y.n
         [] x.t = "str" -> x.s = y.s
         [] x.t = "list" ->
              /\ Len(x.items) = Len(y.items)
              /\ \A i \in 1..Len(x.items) : CanonEq(x.items[i], y.items[i])
         [] x.t = "dict" ->
              /\ {x.items[i][1] : i \in 1..Len(x.items)}
                   = {y.items[i][1] : i \in 1..Len(y.items)}
              /\ \A i \in 1..Len(x.items) : CanonEq(x.items[i][2],
                                                    Get(y, x.items[i][1]))

=============================================================================
